---- MODULE Spec2Model ----
(***************************************************************************)
(* Matchup computation and caching pipeline of the NBA player-matchups     *)
(* backend: the volatile TTL cache (services/cache.py), the durable        *)
(* snapshot store (services/snapshot_store.py) and the orchestrator        *)
(* (services/matchup_service.py).                                          *)
(*                                                                         *)
(* Python values are modelled as follows: a date is a record               *)
(* [year, month, day]; text produced by isoformat() is the sequence of its *)
(* ASCII codes; floats are scaled integers (tenths); None is the record    *)
(* None; a dict is a function whose DOMAIN is its key set; a list is a     *)
(* sequence.                                                               *)
(***************************************************************************)
EXTENDS Integers, Sequences, FiniteSets, TLC

VARIABLES
    now,        \* wall clock, in ticks (datetime.now(UTC))
    cache,      \* InMemoryCache._store : key -> CacheEntry
    rows,       \* table matchup_snapshots : set of rows
    cards,      \* table player_cards_windowed : set of rows
    legacy,     \* table player_cards (legacy, read only)
    shadow,     \* history: (slate, window) -> response last upserted, or None
    nops,       \* number of service / store calls made so far
    ret,        \* observation of the last call: arguments, result, effects
    tasks,      \* get_matchups coroutines in flight: request id -> frame
    arg,        \* the arguments handed to the function under study, or None
    disk,       \* the file at InMemoryCache._persist_path, or None
    injury_cache \* InjuryService._cache : slate date -> (time, injuries)

vars == <<now, cache, rows, cards, legacy, shadow, nops, ret, tasks, arg, disk, injury_cache>>

(***************************************************************************)
(* Bounds of the model.                                                    *)
(***************************************************************************)
MaxNow == 2
MaxOps == 2
MaxStoreOps == 4

None == [none |-> TRUE]

(***************************************************************************)
(* Dates (datetime.date) and their ISO text.                               *)
(***************************************************************************)
Date(y, m, d) == [year |-> y, month |-> m, day |-> d]

IsLeap(y) == (y % 4 = 0 /\ y % 100 # 0) \/ y % 400 = 0

DaysInMonth(y, m) ==
    IF m = 2 THEN (IF IsLeap(y) THEN 29 ELSE 28)
    ELSE IF m \in {4, 6, 9, 11} THEN 30 ELSE 31

\* date - timedelta(days=1)
MinusOneDay(d) ==
    IF d.day > 1 THEN Date(d.year, d.month, d.day - 1)
    ELSE IF d.month > 1
         THEN Date(d.year, d.month - 1, DaysInMonth(d.year, d.month - 1))
         ELSE Date(d.year - 1, 12, 31)

\* date.__lt__
DateLT(a, b) ==
    \/ a.year < b.year
    \/ a.year = b.year /\ a.month < b.month
    \/ a.year = b.year /\ a.month = b.month /\ a.day < b.day

\* ASCII code of the decimal digit k
Digit(k) == 48 + k

\* date.isoformat(): "YYYY-MM-DD" as ASCII codes
isoformat(d) ==
    << Digit(d.year \div 1000), Digit((d.year \div 100) % 10),
       Digit((d.year \div 10) % 10), Digit(d.year % 10), 45,
       Digit(d.month \div 10), Digit(d.month % 10), 45,
       Digit(d.day \div 10), Digit(d.day % 10) >>

\* date.fromisoformat()
fromisoformat(s) ==
    Date((s[1] - 48) * 1000 + (s[2] - 48) * 100 + (s[3] - 48) * 10 + (s[4] - 48),
         (s[6] - 48) * 10 + (s[7] - 48),
         (s[9] - 48) * 10 + (s[10] - 48))

\* lexicographic comparison of two texts of equal length (SQL TEXT <=)
RECURSIVE TextLE(_, _)
TextLE(a, b) ==
    IF a = <<>> \/ b = <<>> THEN a = <<>>
    ELSE IF Head(a) # Head(b) THEN Head(a) < Head(b)
    ELSE TextLE(Tail(a), Tail(b))

as_of_date_for_slate(slate_date) == MinusOneDay(slate_date)

season_label_for_date(target_date) ==
    LET start_year == IF target_date.month >= 10 THEN target_date.year
                      ELSE target_date.year - 1
    IN  <<start_year, (start_year + 1) % 100>>

(***************************************************************************)
(* Text: a str is the sequence of its ASCII codes, so that ordering,       *)
(* upper() and prefix tests are computed as Python computes them.          *)
(***************************************************************************)
BOS == <<66, 79, 83>>
CHI == <<67, 72, 73>>
NYK == <<78, 89, 75>>
PHI == <<80, 72, 73>>

\* str.upper()
upper(s) == [i \in 1..Len(s) |-> IF s[i] >= 97 /\ s[i] <= 122 THEN s[i] - 32 ELSE s[i]]

\* str.__lt__ : lexicographic on code points
RECURSIVE TextLT(_, _)
TextLT(a, b) ==
    IF b = <<>> THEN FALSE
    ELSE IF a = <<>> THEN TRUE
    ELSE IF Head(a) # Head(b) THEN Head(a) < Head(b)
    ELSE TextLT(Tail(a), Tail(b))

\* dict.get(key, default)
DictGet(f, k, default) == IF k \in DOMAIN f THEN f[k] ELSE default

\* the set of elements of a list
Range(s) == {s[i] : i \in 1..Len(s)}

(***************************************************************************)
(* InMemoryCache (services/cache.py).  A key "a:b:c" is the sequence of    *)
(* its colon-separated tokens; every prefix the service passes to          *)
(* invalidate_prefix ends on a token boundary (a trailing colon or a       *)
(* fixed-width ISO date), so startswith is a prefix test on tokens.        *)
(***************************************************************************)
Ttl == 2

CacheEntry(value, expires_at) == [value |-> value, expires_at |-> expires_at]

\* key.startswith(prefix)
startswith(key, prefix) ==
    /\ Len(prefix) <= Len(key)
    /\ key[1] = prefix[1]
    /\ \A i \in 2..Len(prefix) : key[i] = prefix[i]

\* the dict without the given keys
DictPop(c, keys) == [k \in DOMAIN c \ keys |-> c[k]]

cache_get_miss(c, key, t) == [value |-> None, cache |-> c]

\* InMemoryCache.get at time t: the value (or None) and the store afterwards
cache_get(c, key, t) ==
    IF key \notin DOMAIN c THEN [value |-> None, cache |-> c]
    ELSE IF t >= c[key].expires_at
         THEN [value |-> None, cache |-> DictPop(c, {key})]
         ELSE [value |-> c[key].value, cache |-> c]

cache_set_dropped(c, key, value, t) == c

\* InMemoryCache.set at time t
cache_set(c, key, value, t) ==
    [k \in DOMAIN c \cup {key} |->
        IF k = key THEN CacheEntry(value, t + Ttl) ELSE c[k]]

invalidate_nothing(c, prefix) == [count |-> 0, cache |-> c]

\* InMemoryCache.invalidate_prefix: the number of keys removed and the store
invalidate_prefix(c, prefix) ==
    LET keys == {k \in DOMAIN c : startswith(k, prefix)}
    IN  [count |-> Cardinality(keys), cache |-> DictPop(c, keys)]

matchups_key_one_window(slate_date, window) == <<"matchups", isoformat(slate_date), "season">>

\* f"matchups:{slate_date.isoformat()}:{window_key}"
matchups_key(slate_date, window) == <<"matchups", isoformat(slate_date), window>>

snapshot_prefix(season, as_of_date) == <<"snapshot", season, isoformat(as_of_date)>>

snapshot_key(season, as_of_date, team_token) ==
    <<"snapshot", season, isoformat(as_of_date), team_token>>

(***************************************************************************)
(* SnapshotStore, table matchup_snapshots (services/snapshot_store.py).    *)
(***************************************************************************)
\* MatchupResponse.model_dump(mode="json") followed by json.dumps
model_dump_json(r) ==
    [slate_date |-> isoformat(r.slate_date),
     as_of_date |-> isoformat(r.as_of_date),
     window     |-> r.window,
     games      |-> r.games,
     injuries   |-> r.injuries,
     players    |-> r.players]

\* json.loads followed by MatchupResponse.model_validate; None when it raises
model_validate(payload) ==
    IF Len(payload.slate_date) # 10 \/ Len(payload.as_of_date) # 10 THEN None
    ELSE [slate_date |-> fromisoformat(payload.slate_date),
          as_of_date |-> fromisoformat(payload.as_of_date),
          window     |-> payload.window,
          games      |-> payload.games,
          injuries   |-> payload.injuries,
          players    |-> payload.players]

\* SELECT payload ... WHERE slate_date = ? AND window_key = ?
_sqlite_get_snapshot_row(tbl, slate_date, window) ==
    LET hit == {r \in tbl : r.slate_date = isoformat(slate_date) /\ r.window_key = window}
    IN  IF hit = {} THEN None ELSE CHOOSE r \in hit : TRUE

\* SnapshotStore.get
store_get(tbl, slate_date, window) ==
    LET row == _sqlite_get_snapshot_row(tbl, slate_date, window)
    IN  IF row = None THEN None ELSE model_validate(row.payload)

_sqlite_upsert_appending(tbl, slate_date, window, payload, updated_at) ==
    tbl \cup {[slate_date |-> isoformat(slate_date), window_key |-> window,
               payload |-> payload, updated_at |-> updated_at + 1]}

_sqlite_upsert_ignoring(tbl, slate_date, window, payload, updated_at) ==
    IF \E r \in tbl : r.slate_date = isoformat(slate_date) /\ r.window_key = window
    THEN tbl
    ELSE tbl \cup {[slate_date |-> isoformat(slate_date), window_key |-> window,
                    payload |-> payload, updated_at |-> updated_at]}

\* INSERT ... ON CONFLICT(slate_date, window_key) DO UPDATE
_sqlite_upsert_snapshot(tbl, slate_date, window, payload, updated_at) ==
    {r \in tbl : ~(r.slate_date = isoformat(slate_date) /\ r.window_key = window)}
    \cup {[slate_date |-> isoformat(slate_date), window_key |-> window,
           payload |-> payload, updated_at |-> updated_at]}

store_upsert_dropped(tbl, matchup_response, t) == tbl

\* SnapshotStore.upsert at time t
store_upsert(tbl, matchup_response, t) ==
    _sqlite_upsert_snapshot(tbl, matchup_response.slate_date, matchup_response.window,
                            model_dump_json(matchup_response), t)

\* SnapshotStore.delete_slate: the rowcount and the table afterwards
delete_slate(tbl, slate_date) ==
    LET gone == {r \in tbl : r.slate_date = isoformat(slate_date)}
    IN  [count |-> Cardinality(gone), rows |-> tbl \ gone]

(***************************************************************************)
(* The upstream collaborators as the service sees them: the schedule, the  *)
(* league's players and the tables build_snapshot derives from the logs.   *)
(***************************************************************************)
Raised == [raised |-> TRUE]

Windows == {"season", "last10"}
SUPPORTED_STATS == <<"PTS", "REB", "AST", "FG3M", "STL", "BLK">>
DISPLAY_STATS == [s \in Range(SUPPORTED_STATS) |-> IF s = "FG3M" THEN "3PM" ELSE s]

Slate1 == Date(2026, 2, 11)
Slate2 == Date(2026, 3, 1)
Slates == {Slate1, Slate2}

Game(game_id, away_team, home_team) ==
    [game_id |-> game_id, start_time_utc |-> None,
     away_team |-> away_team, home_team |-> home_team]

Schedule(slate_date) ==
    IF slate_date = Slate1 THEN <<Game("001", CHI, BOS)>>
    ELSE IF slate_date = Slate2 THEN <<Game("002", NYK, PHI)>>
    ELSE <<>>

\* NBADataService.fetch_slate_games: the schedule, or [] when the scoreboard and
\* the fallback both yield nothing
fetch_slate_games(slate_date, games_up) == IF games_up THEN Schedule(slate_date) ELSE <<>>

InjuryTag(player_name, team, status) ==
    [player_name |-> player_name, team |-> team, status |-> status,
     comment |-> None, source |-> "nba-cdn", updated_at |-> None]

OUT == <<79, 85, 84>>
Al == <<65, 108>>
Bo == <<66, 111>>
Cy == <<67, 121>>

\* what InjuryService.fetch_injuries can do: return a list, or raise
InjuryFeeds ==
    {[raises |-> FALSE, injuries |-> <<>>],
     [raises |-> FALSE, injuries |-> <<InjuryTag(Al, BOS, OUT)>>],
     [raises |-> TRUE, injuries |-> <<>>]}

LeaguePlayers ==
    << [player_id |-> 1, player_name |-> Al, team |-> BOS, avg_minutes |-> 300,
        position_group |-> "Guards"],
       [player_id |-> 2, player_name |-> Bo, team |-> CHI, avg_minutes |-> 280,
        position_group |-> "Forwards"],
       [player_id |-> 3, player_name |-> Cy, team |-> PHI, avg_minutes |-> 250,
        position_group |-> "Centers"] >>

GuardRanks(pts) == [s \in Range(SUPPORTED_STATS) |-> IF s = "PTS" THEN pts ELSE 10]

\* snapshot[window]: the rank table and the environment scores (tenths)
WindowPayload(window) ==
    IF window = "season"
    THEN [ranks |-> (CHI :> ("Guards" :> GuardRanks(5)) @@ PHI :> ("Guards" :> GuardRanks(9))),
          environment |-> (CHI :> 623 @@ BOS :> 480)]
    ELSE [ranks |-> (CHI :> ("Guards" :> GuardRanks(8)) @@ PHI :> ("Guards" :> GuardRanks(9))),
          environment |-> (CHI :> 581 @@ BOS :> 480)]

PlayerCard(p, season, as_of_date) ==
    [player_id |-> p.player_id, player_name |-> p.player_name, team |-> p.team,
     season |-> season, as_of_date |-> as_of_date, window |-> "season",
     position_group |-> p.position_group, mpg |-> p.avg_minutes, ppg |-> 200]

\* `if team_filter and team not in team_filter: continue`
InTeamFilter(p, team_filter) == team_filter = {} \/ p.team \in team_filter

\* NBADataService.build_snapshot
build_snapshot(as_of_date, season, slate_teams) ==
    LET pool == SelectSeq(LeaguePlayers, LAMBDA p : InTeamFilter(p, slate_teams))
    IN  [rotation_pool |-> pool,
         player_cards  |-> [i \in 1..Len(pool) |-> PlayerCard(pool[i], season, as_of_date)],
         season        |-> WindowPayload("season"),
         last10        |-> WindowPayload("last10")]

\* the dict _compute_matchups falls back to when build_snapshot raises
FallbackSnapshot ==
    [rotation_pool |-> <<>>,
     season |-> [ranks |-> <<>>, environment |-> <<>>],
     last10 |-> [ranks |-> <<>>, environment |-> <<>>]]

(***************************************************************************)
(* Table player_cards_windowed: the card upsert used by the computation.   *)
(***************************************************************************)
CardRow(card, updated_at) ==
    [player_id |-> card.player_id, player_name |-> card.player_name, team |-> card.team,
     season |-> card.season, as_of_date |-> isoformat(card.as_of_date),
     window_key |-> card.window, position_group |-> card.position_group,
     mpg |-> card.mpg, ppg |-> card.ppg, updated_at |-> updated_at]

SameCardKey(r, q) ==
    /\ r.player_id = q.player_id
    /\ r.season = q.season
    /\ r.as_of_date = q.as_of_date
    /\ r.window_key = q.window_key

\* SnapshotStore.upsert_player_cards at time t: the rows stored and the table
upsert_player_cards(ctbl, cds, t) ==
    LET new == {CardRow(cds[i], t) : i \in 1..Len(cds)}
    IN  [count |-> Len(cds),
         cards |-> {r \in ctbl : \A q \in new : ~SameCardKey(r, q)} \cup new]

\* SnapshotStore._row_to_player_card
_row_to_player_card(row) ==
    [player_id |-> row.player_id, player_name |-> row.player_name, team |-> row.team,
     season |-> row.season, as_of_date |-> fromisoformat(row.as_of_date),
     window |-> row.window_key, position_group |-> row.position_group,
     mpg |-> row.mpg, ppg |-> row.ppg]

\* a row of the legacy table read with `'season' AS window_key`
LegacyRow(r) ==
    [player_id |-> r.player_id, player_name |-> r.player_name, team |-> r.team,
     season |-> r.season, as_of_date |-> r.as_of_date, window_key |-> "season",
     position_group |-> r.position_group, mpg |-> r.mpg, ppg |-> r.ppg,
     updated_at |-> r.updated_at]

\* the order of `ORDER BY as_of_date, season` on two rows
CardOrderLT(a, b) ==
    \/ TextLT(a.as_of_date, b.as_of_date)
    \/ /\ a.as_of_date = b.as_of_date
       /\ \/ a.season[1] < b.season[1]
          \/ a.season[1] = b.season[1] /\ a.season[2] < b.season[2]

\* `ORDER BY as_of_date DESC, season DESC LIMIT 1` followed by fetchone()
FirstDescending(S) ==
    IF S = {} THEN None
    ELSE CHOOSE r \in S : \A q \in S : q = r \/ CardOrderLT(q, r)

_sqlite_get_latest_player_card_row(ctbl, leg, player_id, window) ==
    LET row == FirstDescending({r \in ctbl : r.player_id = player_id /\ r.window_key = window})
    IN  IF row # None \/ window # "season" THEN row
        ELSE FirstDescending({LegacyRow(r) : r \in {q \in leg : q.player_id = player_id}})

_sqlite_get_player_card_as_of_row(ctbl, leg, player_id, as_of_date, window) ==
    LET row == FirstDescending({r \in ctbl :
                   /\ r.player_id = player_id
                   /\ TextLE(r.as_of_date, isoformat(as_of_date))
                   /\ r.window_key = window})
    IN  IF row # None \/ window # "season" THEN row
        ELSE FirstDescending({LegacyRow(r) : r \in {q \in leg :
                   /\ q.player_id = player_id
                   /\ TextLE(q.as_of_date, isoformat(as_of_date))}})

\* SnapshotStore.get_latest_player_card
get_latest_player_card(ctbl, leg, player_id, window) ==
    LET row == _sqlite_get_latest_player_card_row(ctbl, leg, player_id, window)
    IN  IF row = None THEN None ELSE _row_to_player_card(row)

\* SnapshotStore.get_player_card_as_of
get_player_card_as_of(ctbl, leg, player_id, as_of_date, window) ==
    LET row == _sqlite_get_player_card_as_of_row(ctbl, leg, player_id, as_of_date, window)
    IN  IF row = None THEN None ELSE _row_to_player_card(row)

(***************************************************************************)
(* MatchupService (services/matchup_service.py).                           *)
(***************************************************************************)
to_tier(rank) ==
    IF rank <= 6 THEN "green"
    ELSE IF rank <= 12 THEN "yellow"
    ELSE IF rank <= 20 THEN "orange"
    ELSE "red"

\* the element of a list at the last of the positions idx, or None
LastAt(s, idx) ==
    IF idx = {} THEN None ELSE s[CHOOSE i \in idx : \A j \in idx : j <= i]

\* opponent_map.get(team): later games overwrite earlier ones
opponent_of(games, team) ==
    LET g == LastAt(games, {i \in 1..Len(games) :
                    games[i].away_team = team \/ games[i].home_team = team})
    IN  IF g = None THEN None
        ELSE IF g.home_team = team THEN g.away_team ELSE g.home_team

slate_teams_of(games) ==
    {games[i].away_team : i \in 1..Len(games)} \cup {games[i].home_team : i \in 1..Len(games)}

\* sorted(slate_teams), by insertion
RECURSIVE sorted(_)
sorted(S) ==
    IF S = {} THEN <<>>
    ELSE LET m == CHOOSE x \in S : \A y \in S \ {x} : TextLT(x, y)
         IN  <<m>> \o sorted(S \ {m})

\* ",".join(sorted(slate_teams)) if slate_teams else "none"
team_token(teams) == IF teams = {} THEN <<"none">> ELSE sorted(teams)

\* injury_lookup.get(key): the status a dict built by assignment in list order
\* holds, idx being the positions of the injuries filed under the key
lookup_status(injuries, idx) ==
    LET hit == LastAt(injuries, idx)
    IN  IF hit = None THEN None ELSE hit.status

\* min(player.stat_ranks.values()) if player.stat_ranks else 30
min_rank(player) ==
    IF DOMAIN player.stat_ranks = {} THEN 30
    ELSE CHOOSE m \in {player.stat_ranks[k] : k \in DOMAIN player.stat_ranks} :
            \A k \in DOMAIN player.stat_ranks : m <= player.stat_ranks[k]

sort_key_ascending_score(a, b) ==
    \/ min_rank(a) < min_rank(b)
    \/ /\ min_rank(a) = min_rank(b)
       /\ \/ a.environment_score < b.environment_score
          \/ /\ a.environment_score = b.environment_score
             /\ TextLT(a.player_name, b.player_name)

\* the sort key (min rank, -environment_score, player_name) compared as tuples
sort_key_lt(a, b) ==
    \/ min_rank(a) < min_rank(b)
    \/ /\ min_rank(a) = min_rank(b)
       /\ \/ (0 - a.environment_score) < (0 - b.environment_score)
          \/ /\ a.environment_score = b.environment_score
             /\ TextLT(a.player_name, b.player_name)

RECURSIVE insert_sorted(_, _)
insert_sorted(p, s) ==
    IF s = <<>> THEN <<p>>
    ELSE IF sort_key_lt(p, Head(s)) THEN <<p>> \o s
    ELSE <<Head(s)>> \o insert_sorted(p, Tail(s))

\* list.sort(key=...): stable
RECURSIVE sort_players(_)
sort_players(s) ==
    IF s = <<>> THEN <<>>
    ELSE insert_sorted(s[Len(s)], sort_players(SubSeq(s, 1, Len(s) - 1)))

\* one PlayerMatchup of _compute_matchups
player_matchup(player, opponent, ranks, environment, injuries) ==
    LET group == player.position_group
        rank_of(stat_key) ==
            DictGet(DictGet(DictGet(ranks, opponent, <<>>), group, <<>>), stat_key, 30)
        shown == {DISPLAY_STATS[k] : k \in Range(SUPPORTED_STATS)}
        key_of(d) == CHOOSE k \in Range(SUPPORTED_STATS) : DISPLAY_STATS[k] = d
    IN  [player_id |-> player.player_id,
         player_name |-> player.player_name,
         team |-> player.team,
         opponent |-> opponent,
         position_group |-> group,
         avg_minutes |-> player.avg_minutes,
         injury_status |-> lookup_status(injuries, {i \in 1..Len(injuries) :
             /\ injuries[i].team = player.team
             /\ upper(injuries[i].player_name) = upper(player.player_name)}),
         environment_score |-> DictGet(environment, opponent, 500),
         stat_ranks |-> [d \in shown |-> rank_of(key_of(d))],
         stat_tiers |-> [d \in shown |-> to_tier(rank_of(key_of(d)))]]

MatchupResponse(slate_date, as_of_date, window, games, injuries, players) ==
    [slate_date |-> slate_date, as_of_date |-> as_of_date, window |-> window,
     games |-> games, injuries |-> injuries, players |-> players]

\* MatchupService._compute_matchups at time t.  env: games_up (the schedule is
\* available), feed (what fetch_injuries yields), build_ok (build_snapshot
\* returns), cards_ok (the card upsert succeeds).
_compute_matchups(c, ctbl, slate_date, window, t, env) ==
    LET games == fetch_slate_games(slate_date, env.games_up)
        injuries == IF env.feed.raises THEN <<>> ELSE env.feed.injuries
        teams == slate_teams_of(games)
        as_of_date == as_of_date_for_slate(slate_date)
        season == season_label_for_date(slate_date)
        skey == snapshot_key(season, as_of_date, team_token(teams))
        got == cache_get(c, skey, t)
        miss == got.value = None
        built == IF env.build_ok THEN build_snapshot(as_of_date, season, teams)
                 ELSE FallbackSnapshot
        snapshot == IF miss THEN built ELSE got.value
        c2 == IF miss THEN cache_set(got.cache, skey, snapshot, t) ELSE got.cache
        payload == snapshot[window]
        pool == SelectSeq(snapshot.rotation_pool,
                          LAMBDA p : p.team \in teams /\ opponent_of(games, p.team) # None)
        players == [i \in 1..Len(pool) |->
                       player_matchup(pool[i], opponent_of(games, pool[i].team),
                                      payload.ranks, payload.environment, injuries)]
        player_cards == DictGet(snapshot, "player_cards", <<>>)
        store_cards == player_cards # <<>> /\ env.cards_ok
    IN  [response |-> MatchupResponse(slate_date, as_of_date, window, games, injuries,
                                      sort_players(players)),
         cache |-> c2,
         cards |-> IF store_cards THEN upsert_player_cards(ctbl, player_cards, t).cards
                   ELSE ctbl,
         builds |-> IF miss THEN 1 ELSE 0]

overlay_without_players(base_response, injuries) ==
    [base_response EXCEPT !.injuries = injuries, !.players = <<>>]

\* MatchupService._with_injury_overlay
_with_injury_overlay(base_response, injuries) ==
    LET status_of(player) ==
            LET by_team == lookup_status(injuries, {i \in 1..Len(injuries) :
                    /\ upper(injuries[i].team) = upper(player.team)
                    /\ upper(injuries[i].player_name) = upper(player.player_name)})
            IN  IF by_team # None THEN by_team
                ELSE lookup_status(injuries, {i \in 1..Len(injuries) :
                    upper(injuries[i].player_name) = upper(player.player_name)})
    IN  MatchupResponse(base_response.slate_date, base_response.as_of_date,
            base_response.window, base_response.games, injuries,
            [i \in 1..Len(base_response.players) |->
                [base_response.players[i] EXCEPT !.injury_status =
                    status_of(base_response.players[i])]])

is_stale_never(base_response, expected_as_of) == FALSE

is_stale_always(base_response, expected_as_of) == TRUE

\* `base_response.as_of_date < expected_as_of`
is_stale(base_response, expected_as_of) == DateLT(base_response.as_of_date, expected_as_of)

\* MatchupService.get_matchups at time t.  env extends the environment of
\* _compute_matchups with upsert_ok (SnapshotStore.upsert returns rather than raises).
get_matchups(c, tbl, ctbl, slate_date, window, t, env) ==
    LET base_cache_key == matchups_key(slate_date, window)
        got == cache_get(c, base_cache_key, t)
        expected_as_of == as_of_date_for_slate(slate_date)
        read_store == got.value = None
        stored == IF read_store THEN store_get(tbl, slate_date, window) ELSE None
        promoted == read_store /\ stored # None
        c1 == IF promoted THEN cache_set(got.cache, base_cache_key, stored, t)
              ELSE got.cache
        held == IF read_store THEN stored ELSE got.value
        stale == held # None /\ is_stale(held, expected_as_of)
        compute == held = None \/ stale
        done == _compute_matchups(c1, ctbl, slate_date, window, t, env)
        base_response == IF compute THEN done.response ELSE held
        live_injuries == IF env.feed.raises THEN base_response.injuries
                         ELSE env.feed.injuries
    IN  [result   |-> _with_injury_overlay(base_response, live_injuries),
         base     |-> base_response,
         held     |-> held,
         cache    |-> IF compute
                      THEN cache_set(done.cache, base_cache_key, done.response, t)
                      ELSE c1,
         rows     |-> IF compute /\ env.upsert_ok THEN store_upsert(tbl, done.response, t)
                      ELSE tbl,
         cards    |-> IF compute THEN done.cards ELSE ctbl,
         computes |-> IF compute THEN <<window>> ELSE <<>>,
         builds   |-> IF compute THEN done.builds ELSE 0,
         upserts  |-> IF compute THEN 1 ELSE 0,
         upsert_raised |-> compute /\ ~env.upsert_ok,
         store_gets |-> IF read_store THEN 1 ELSE 0,
         promoted |-> promoted]

keep_existing_never(existing, response) == FALSE

\* `existing is not None and not response.games and existing.games`
keep_existing(existing, response) ==
    existing # None /\ response.games = <<>> /\ existing.games # <<>>

RefreshResponse(slate_date, cleared_keys, recomputed) ==
    [slate_date |-> slate_date, cleared_keys |-> cleared_keys, recomputed |-> recomputed]

\* MatchupService.refresh at time t.  env: games_up and games_up2 (the schedule
\* as the season and the last10 computation find it), feed, build_ok, cards_ok,
\* writes_ok (how many store writes of refresh itself succeed before one raises).
refresh(c, tbl, ctbl, slate_date, recompute, t, env) ==
    LET existing_season == store_get(tbl, slate_date, "season")
        existing_last10 == store_get(tbl, slate_date, "last10")
        inv1 == invalidate_prefix(c, <<"matchups", isoformat(slate_date)>>)
        as_of_date == as_of_date_for_slate(slate_date)
        season == season_label_for_date(slate_date)
        inv2 == invalidate_prefix(inv1.cache, snapshot_prefix(season, as_of_date))
        first == _compute_matchups(inv2.cache, ctbl, slate_date, "season", t, env)
        second == _compute_matchups(first.cache, first.cards, slate_date, "last10", t,
                                    [env EXCEPT !.games_up = env.games_up2])
        season_response == IF keep_existing(existing_season, first.response)
                           THEN existing_season ELSE first.response
        last10_response == IF keep_existing(existing_last10, second.response)
                           THEN existing_last10 ELSE second.response
        rows1 == IF env.writes_ok >= 1 THEN store_upsert(tbl, season_response, t) ELSE tbl
        rows2 == IF env.writes_ok >= 2 THEN store_upsert(rows1, last10_response, t) ELSE rows1
        c3 == cache_set(second.cache, matchups_key(slate_date, "season"), season_response, t)
        c4 == cache_set(c3, matchups_key(slate_date, "last10"), last10_response, t)
        gone == delete_slate(tbl, slate_date)
        returned == IF recompute THEN env.writes_ok >= 2 ELSE env.writes_ok >= 1
    IN  [result   |-> IF ~returned THEN Raised
                      ELSE RefreshResponse(slate_date,
                               inv1.count + inv2.count + (IF recompute THEN 0 ELSE gone.count),
                               recompute),
         cache    |-> IF recompute THEN (IF returned THEN c4 ELSE second.cache)
                      ELSE inv2.cache,
         rows     |-> IF recompute THEN rows2
                      ELSE IF returned THEN gone.rows ELSE tbl,
         cards    |-> IF recompute THEN second.cards ELSE ctbl,
         existing |-> [season |-> existing_season, last10 |-> existing_last10],
         fresh    |-> IF recompute
                      THEN [season |-> first.response, last10 |-> second.response]
                      ELSE None,
         settled  |-> IF recompute
                      THEN [season |-> season_response, last10 |-> last10_response]
                      ELSE None,
         computes |-> IF recompute THEN <<"season", "last10">> ELSE <<>>,
         get_matchups_calls |-> <<>>,
         builds   |-> IF recompute THEN first.builds + second.builds ELSE 0,
         upserts  |-> IF recompute THEN (IF env.writes_ok >= 1 THEN 2 ELSE 1) ELSE 0,
         snapshot_keys_before |-> Cardinality({k \in DOMAIN inv1.cache :
                                     startswith(k, snapshot_prefix(season, as_of_date))})]

\* current_et_date(): the day the service is running
Today == Slate1

\* NBADataService.build_player_card_windows_for_player: the last10 and last5
\* cards of one player from the logs already on disk, or no cards when the logs
\* do not yield them
build_player_card_windows_for_player(player_id, as_of_date, season, fallback_team, fallback_position, backfill_ok) ==
    LET known == SelectSeq(LeaguePlayers, LAMBDA p : p.player_id = player_id)
        card(window) ==
            [player_id |-> player_id, player_name |-> known[1].player_name,
             team |-> fallback_team, season |-> season, as_of_date |-> as_of_date,
             window |-> window, position_group |-> fallback_position,
             mpg |-> known[1].avg_minutes, ppg |-> 180]
    IN  IF backfill_ok /\ known # <<>> THEN <<card("last10"), card("last5")>> ELSE <<>>

populate_skipped(c, ctbl, slate_date, t, env) ==
    [cache |-> c, cards |-> ctbl, builds |-> 0, stored |-> 0]

\* MatchupService._populate_player_cards_for_date at time t: the cache and the
\* card table afterwards, the build_snapshot calls and the cards stored
_populate_player_cards_for_date(c, ctbl, slate_date, t, env) ==
    LET as_of_date == as_of_date_for_slate(slate_date)
        season == season_label_for_date(slate_date)
        games == fetch_slate_games(slate_date, env.games_up)
        slate_teams == slate_teams_of(games)
        skey == snapshot_key(season, as_of_date, team_token(slate_teams))
        got == cache_get(c, skey, t)
        miss == got.value = None
        snapshot == IF miss THEN build_snapshot(as_of_date, season, slate_teams)
                    ELSE got.value
        player_cards == DictGet(snapshot, "player_cards", <<>>)
    IN  IF miss /\ ~env.build_ok
        THEN [cache |-> got.cache, cards |-> ctbl, builds |-> 1, stored |-> 0]
        ELSE [cache  |-> IF miss THEN cache_set(got.cache, skey, snapshot, t)
                         ELSE got.cache,
              cards  |-> IF player_cards # <<>> /\ env.cards_ok
                         THEN upsert_player_cards(ctbl, player_cards, t).cards
                         ELSE ctbl,
              builds |-> IF miss THEN 1 ELSE 0,
              stored |-> IF player_cards # <<>> /\ env.cards_ok
                         THEN upsert_player_cards(ctbl, player_cards, t).count
                         ELSE 0]

get_player_card_no_fallback(c, ctbl, leg, player_id, slate_date, window, t, env) ==
    LET as_of_date == IF slate_date = None THEN Today ELSE slate_date
        cold == _populate_player_cards_for_date(c, ctbl, as_of_date, t, env)
    IN  [result |-> IF slate_date # None
                    THEN get_player_card_as_of(cold.cards, leg, player_id, slate_date, window)
                    ELSE get_latest_player_card(cold.cards, leg, player_id, window),
         cache |-> cold.cache, cards |-> cold.cards,
         populated |-> TRUE, builds |-> cold.builds, stored |-> cold.stored]

\* MatchupService.get_player_card at time t; slate_date is a date or None
get_player_card(c, ctbl, leg, player_id, slate_date, window, t, env) ==
    LET as_of_date == IF slate_date = None THEN Today ELSE slate_date
        lookup(tbl) ==
            IF slate_date # None
            THEN get_player_card_as_of(tbl, leg, player_id, slate_date, window)
            ELSE get_latest_player_card(tbl, leg, player_id, window)
        card == IF window = "season" THEN lookup(ctbl) ELSE None
        season_card == get_player_card_as_of(ctbl, leg, player_id, as_of_date, "season")
        windowed == build_player_card_windows_for_player(player_id,
                        as_of_date_for_slate(as_of_date), season_label_for_date(as_of_date),
                        season_card.team, season_card.position_group, env.backfill_ok)
        filled == IF windowed # <<>> /\ env.cards_ok
                  THEN upsert_player_cards(ctbl, windowed, t).cards ELSE ctbl
        cold == _populate_player_cards_for_date(c, ctbl, as_of_date, t, env)
    IN  IF card # None
        THEN [result |-> card, cache |-> c, cards |-> ctbl,
              populated |-> FALSE, builds |-> 0, stored |-> 0]
        ELSE IF season_card # None
        THEN [result |-> IF lookup(filled) # None THEN lookup(filled) ELSE season_card,
              cache |-> c, cards |-> filled,
              populated |-> FALSE, builds |-> 0, stored |-> 0]
        ELSE [result |-> lookup(cold.cards), cache |-> cold.cache, cards |-> cold.cards,
              populated |-> TRUE, builds |-> cold.builds, stored |-> cold.stored]

(***************************************************************************)
(* The environment of one call: what the upstream services and the store   *)
(* do while the handler runs.  games_up / games_up2: the schedule is       *)
(* available to the first / second computation of the call; feed: what     *)
(* fetch_injuries does; build_ok: build_snapshot returns; cards_ok: the     *)
(* card upsert returns; upsert_ok: SnapshotStore.upsert returns (in        *)
(* get_matchups); writes_ok: how many store writes of refresh succeed      *)
(* before one raises; backfill_ok: the logs on disk yield windowed cards.   *)
(* A call meets the nominal environment or one                             *)
(* deviation from it.                                                      *)
(***************************************************************************)
NoInjuries == [raises |-> FALSE, injuries |-> <<>>]

Nominal ==
    [games_up |-> TRUE, games_up2 |-> TRUE, feed |-> NoInjuries, build_ok |-> TRUE,
     cards_ok |-> TRUE, upsert_ok |-> TRUE, writes_ok |-> 2, backfill_ok |-> TRUE]

ComputeEnvs ==
    {Nominal}
    \cup {[Nominal EXCEPT !.feed = f] : f \in InjuryFeeds}
    \cup {[Nominal EXCEPT !.games_up = FALSE],
          [Nominal EXCEPT !.build_ok = FALSE]}

GetMatchupsEnvs == ComputeEnvs \cup {[Nominal EXCEPT !.upsert_ok = FALSE]}

RefreshEnvs(recompute) ==
    IF recompute
    THEN ComputeEnvs
         \cup {[Nominal EXCEPT !.games_up2 = FALSE],
               [Nominal EXCEPT !.games_up = FALSE, !.games_up2 = FALSE],
               [Nominal EXCEPT !.writes_ok = 0],
               [Nominal EXCEPT !.writes_ok = 1]}
    ELSE {Nominal, [Nominal EXCEPT !.writes_ok = 0]}

(***************************************************************************)
(* The state machine: one action per request handled by the service.       *)
(***************************************************************************)
\* the slate the requests of the service specifications ask for
Served == {Slate1}

\* a response written by an earlier deployment: its as-of date lags the slate
StaleResponse(slate_date, window) ==
    MatchupResponse(slate_date, MinusOneDay(as_of_date_for_slate(slate_date)), window,
                    Schedule(slate_date), <<>>, <<>>)

SnapshotRow(r) ==
    [slate_date |-> isoformat(r.slate_date), window_key |-> r.window,
     payload |-> model_dump_json(r), updated_at |-> 0]

\* a payload MatchupResponse.model_validate rejects: its dates are not ISO text
CorruptPayload ==
    [slate_date |-> <<>>, as_of_date |-> <<>>, window |-> "last10",
     games |-> <<>>, injuries |-> <<>>, players |-> <<>>]

\* what the durable store may hold when the service starts
InitRows ==
    { {},
      {SnapshotRow(StaleResponse(Slate1, "season")),
       SnapshotRow(StaleResponse(Slate2, "season")),
       [slate_date |-> isoformat(Slate1), window_key |-> "last10",
        payload |-> CorruptPayload, updated_at |-> 0]} }

NoShadow == [k \in Slates \X Windows |-> None]

\* what a handler's log keeps of the call that preceded it
Brief(r) ==
    IF r.op = "get_matchups"
    THEN [op |-> r.op, slate_date |-> r.slate_date, window |-> r.window, at |-> r.at,
          cold |-> r.cold, computes |-> r.computes, upsert_raised |-> r.upsert_raised]
    ELSE IF r.op = "upsert"
    THEN [op |-> r.op, slate_date |-> r.slate_date, window |-> r.window,
          replaced |-> r.replaced]
    ELSE [op |-> r.op]

Init ==
    /\ now = 0
    /\ disk = None
    /\ injury_cache = <<>>
    /\ cache = <<>>
    /\ rows \in InitRows
    /\ cards = {}
    /\ legacy = {}
    /\ shadow = NoShadow
    /\ nops = 0
    /\ ret = [op |-> "init"]
    /\ tasks = <<>>
    /\ arg = None

Tick ==
    /\ now < MaxNow
    /\ now' = now + 1
    /\ UNCHANGED <<injury_cache, disk, tasks, arg, cache, rows, cards, legacy, shadow, nops, ret>>

\* a get_matchups request for one of the dates under one of the environments
GetMatchupsFor(dates, envs) ==
    /\ nops < MaxOps
    /\ \E slate_date \in dates, window \in Windows, env \in envs :
          \E r \in {get_matchups(cache, rows, cards, slate_date, window, now, env)} :
              /\ cache' = r.cache
              /\ rows' = r.rows
              /\ cards' = r.cards
              /\ ret' = [op |-> "get_matchups", slate_date |-> slate_date,
                         window |-> window, at |-> now,
                         cold |-> DOMAIN cache = {} /\ rows = {},
                         result |-> r.result, base |-> r.base, held |-> r.held,
                         computes |-> r.computes, builds |-> r.builds,
                         upserts |-> r.upserts, upsert_raised |-> r.upsert_raised,
                         store_gets |-> r.store_gets, promoted |-> r.promoted,
                         after |-> Brief(ret)]
    /\ nops' = nops + 1
    /\ UNCHANGED <<injury_cache, disk, tasks, arg, now, legacy, shadow>>

GetMatchups == GetMatchupsFor(Served, GetMatchupsEnvs)

Refresh ==
    /\ nops < MaxOps
    /\ \E slate_date \in Served, recompute \in BOOLEAN :
          \E env \in RefreshEnvs(recompute) :
             \E r \in {refresh(cache, rows, cards, slate_date, recompute, now, env)} :
                 /\ cache' = r.cache
                 /\ rows' = r.rows
                 /\ cards' = r.cards
                 /\ ret' = [op |-> "refresh", slate_date |-> slate_date,
                            recompute |-> recompute, at |-> now,
                            result |-> r.result, existing |-> r.existing,
                            fresh |-> r.fresh, settled |-> r.settled,
                            computes |-> r.computes,
                            get_matchups_calls |-> r.get_matchups_calls,
                            builds |-> r.builds, upserts |-> r.upserts,
                            after |-> Brief(ret)]
    /\ nops' = nops + 1
    /\ UNCHANGED <<injury_cache, disk, tasks, arg, now, legacy, shadow>>

Next == Tick \/ GetMatchups \/ Refresh

Spec == Init /\ [][Next]_vars

(***************************************************************************)
(* Properties of get_matchups.  `ret` is the log of the last call handled. *)
(***************************************************************************)
\* the cache entry under a key as it stands, expired or not
Cached(key) == IF key \in DOMAIN cache THEN cache[key].value ELSE None

Returned == ret.op = "get_matchups"

\* the response get_matchups found (in the cache or in the store) lags the slate
HeldStale ==
    /\ ret.held # None
    /\ DateLT(ret.held.as_of_date, MinusOneDay(ret.slate_date))

\* C1 as the specification states it: get_matchups never returns a response whose
\* as_of_date is older than slate - 1 day, and when the response it held was stale
\* a fresh computation runs whose result overwrites the durable row and the cache
\* entry of (slate, window).
C1_Stated ==
    Returned =>
        /\ ~DateLT(ret.result.as_of_date, MinusOneDay(ret.slate_date))
        /\ HeldStale =>
              /\ ret.computes = <<ret.window>>
              /\ ret.base.as_of_date = MinusOneDay(ret.slate_date)
              /\ Cached(matchups_key(ret.slate_date, ret.window)) = ret.base
              /\ store_get(rows, ret.slate_date, ret.window) = ret.base

\* C1, amended: get_matchups never returns a response whose as_of_date is older
\* than slate - 1 day; when the response it held was stale a fresh computation
\* runs and its result overwrites the cache entry of (slate, window), and the
\* durable row as well unless the store's upsert raised (the failure is swallowed
\* and the row is left as it was).
C1_NeverServesStale ==
    Returned =>
        /\ ~DateLT(ret.result.as_of_date, MinusOneDay(ret.slate_date))
        /\ HeldStale =>
              /\ ret.computes = <<ret.window>>
              /\ ret.base.as_of_date = MinusOneDay(ret.slate_date)
              /\ Cached(matchups_key(ret.slate_date, ret.window)) = ret.base
              /\ ~ret.upsert_raised =>
                    store_get(rows, ret.slate_date, ret.window) = ret.base

\* a stale response was held, recomputed, and the fresh one replaced row and entry
C1_Witness ==
    /\ Returned
    /\ HeldStale
    /\ ret.result.as_of_date = MinusOneDay(ret.slate_date)
    /\ ~ret.upsert_raised
    /\ store_get(rows, ret.slate_date, ret.window) = ret.base
    /\ Cached(matchups_key(ret.slate_date, ret.window)) = ret.base

\* the call before this one was a get_matchups for the same (slate, window) and
\* the entry it wrote has not reached its TTL
FollowsWithinTtl ==
    /\ Returned
    /\ ret.after.op = "get_matchups"
    /\ ret.after.slate_date = ret.slate_date
    /\ ret.after.window = ret.window
    /\ ret.at < ret.after.at + Ttl

\* C2: from an empty cache and an empty store the first get_matchups runs exactly
\* one computation (one build_snapshot call) and attempts exactly one upsert; an
\* identical get_matchups that follows within the TTL runs no computation and no
\* upsert.
C2_OneComputationThenNone ==
    /\ (Returned /\ ret.cold) =>
          /\ ret.computes = <<ret.window>>
          /\ ret.builds = 1
          /\ ret.upserts = 1
    /\ (FollowsWithinTtl /\ ret.after.cold) =>
          /\ ret.computes = <<>>
          /\ ret.builds = 0
          /\ ret.upserts = 0

\* a second identical call was answered within the TTL of a cold first call
C2_Witness ==
    /\ FollowsWithinTtl
    /\ ret.after.cold
    /\ ret.after.computes = <<ret.window>>
    /\ ret.computes = <<>>
    /\ ret.at > ret.after.at

\* players as stored, before the injury overlay marks them
Unmarked(players) ==
    [i \in 1..Len(players) |-> [players[i] EXCEPT !.injury_status = None]]

\* the cache missed and the store held a response that is not stale
ServedFromStore ==
    /\ Returned
    /\ ret.store_gets = 1
    /\ ret.held # None
    /\ ~HeldStale

\* C3: get_matchups looks in the cache, then the store, then computes.  On a cache
\* miss with a non-stale stored response it runs no computation, no build_snapshot
\* and no upsert, serves the stored players and writes the stored response into
\* the cache; it computes only when neither tier held a usable response; and a
\* call that finds a live cache entry does not read the store.
C3_LookupOrder ==
    /\ [](ServedFromStore =>
            /\ ret.computes = <<>>
            /\ ret.builds = 0
            /\ ret.upserts = 0
            /\ Unmarked(ret.result.players) = Unmarked(ret.held.players)
            /\ Cached(matchups_key(ret.slate_date, ret.window)) = ret.held)
    /\ []((Returned /\ ret.computes # <<>>) => (ret.held = None \/ HeldStale))
    /\ [][(/\ nops' = nops + 1
           /\ ret'.op = "get_matchups"
           /\ cache_get(cache, matchups_key(ret'.slate_date, ret'.window), now).value # None)
          => (ret'.store_gets = 0 /\ ~ret'.promoted)]_vars

\* an expired entry sent the call to the store, whose fresh row it served
C3_Witness ==
    /\ ServedFromStore
    /\ ret.held.players # <<>>
    /\ ret.computes = <<>>
    /\ ret.after.op = "get_matchups"
    /\ Cached(matchups_key(ret.slate_date, ret.window)) = ret.held

\* C8: when the store's upsert raises inside get_matchups the request does not
\* fail: the computed response is written into the cache and returned, and an
\* identical get_matchups that follows within the TTL is served from the cache
\* without recomputation.
C8_UpsertFailureSwallowed ==
    /\ (Returned /\ ret.upsert_raised) =>
          /\ ret.result # Raised
          /\ ret.computes = <<ret.window>>
          /\ ret.result.as_of_date = ret.base.as_of_date
          /\ ret.result.games = ret.base.games
          /\ Unmarked(ret.result.players) = Unmarked(ret.base.players)
          /\ Cached(matchups_key(ret.slate_date, ret.window)) = ret.base
    /\ (FollowsWithinTtl /\ ret.after.upsert_raised) =>
          /\ ret.computes = <<>>
          /\ ret.builds = 0
          /\ ret.store_gets = 0

\* the call after a failed upsert was answered from the cache
C8_Witness ==
    /\ FollowsWithinTtl
    /\ ret.after.upsert_raised
    /\ ret.computes = <<>>
    /\ ret.result.players # <<>>

(***************************************************************************)
(* Properties of refresh.                                                  *)
(***************************************************************************)
Refreshed == ret.op = "refresh"

\* refresh ran to its return statement
RefreshReturned == Refreshed /\ ret.result # Raised

\* C4: refresh(date, recompute=false) never triggers a recomputation, and when it
\* returns the cache holds no matchups:<date>:* key and no
\* snapshot:<season>:<date-1>* key and the store holds no row of that slate.
C4_RefreshClears ==
    (Refreshed /\ ~ret.recompute) =>
        /\ ret.computes = <<>>
        /\ ret.get_matchups_calls = <<>>
        /\ ret.builds = 0
        /\ RefreshReturned =>
              /\ \A k \in DOMAIN cache :
                    /\ ~startswith(k, <<"matchups", isoformat(ret.slate_date)>>)
                    /\ ~startswith(k, snapshot_prefix(season_label_for_date(ret.slate_date),
                                                       MinusOneDay(ret.slate_date)))
              /\ \A r \in rows : r.slate_date # isoformat(ret.slate_date)

\* a refresh without recomputation cleared cache keys and store rows
C4_Witness ==
    /\ RefreshReturned
    /\ ~ret.recompute
    /\ ret.result.cleared_keys >= 3
    /\ ret.after.op = "get_matchups"
    /\ \A r \in rows : r.slate_date # isoformat(ret.slate_date)

\* C5: refresh(date, recompute=true) computes the season and the last10 window
\* once each whatever the cache and the store held, building the snapshot anew
\* because the memoized one was discarded first; when it returns, the store and
\* the cache hold for each window the response refresh settled on.
C5_RecomputesBoth ==
    (Refreshed /\ ret.recompute) =>
        /\ ret.computes = <<"season", "last10">>
        /\ ret.builds >= 1
        /\ RefreshReturned =>
              \A w \in Windows :
                 /\ store_get(rows, ret.slate_date, w) = ret.settled[w]
                 /\ Cached(matchups_key(ret.slate_date, w)) = ret.settled[w]

\* a recomputing refresh ran right after a get_matchups had filled both tiers
C5_Witness ==
    /\ RefreshReturned
    /\ ret.recompute
    /\ ret.after.op = "get_matchups"
    /\ ret.after.computes # <<>>
    /\ ret.existing.season # None
    /\ ret.builds >= 1
    /\ \A w \in Windows : store_get(rows, ret.slate_date, w) = ret.settled[w]

\* C6 as the specification states it: refresh(date, recompute=true) invokes
\* get_matchups exactly twice, for the season window and then for last10.
C6_Stated ==
    (Refreshed /\ ret.recompute) => ret.get_matchups_calls = <<"season", "last10">>

\* the new response of a window has no games while the stored one had some
Outage(w) ==
    /\ ret.existing[w] # None
    /\ ret.fresh[w].games = <<>>
    /\ ret.existing[w].games # <<>>

\* C7: in refresh(date, recompute=true), for each window on its own: when the new
\* response has no games while the response stored before the refresh had some,
\* the stored response is what refresh keeps in the store and writes to the cache;
\* otherwise the new response replaces it.
C7_KeepsOnOutage ==
    (Refreshed /\ ret.recompute) =>
        \A w \in Windows :
            LET kept == IF Outage(w) THEN ret.existing[w] ELSE ret.fresh[w]
            IN  /\ ret.settled[w] = kept
                /\ RefreshReturned =>
                      /\ store_get(rows, ret.slate_date, w) = kept
                      /\ Cached(matchups_key(ret.slate_date, w)) = kept

\* the season window kept its stored response while last10 took the new one
C7_Witness ==
    /\ RefreshReturned
    /\ ret.recompute
    /\ Outage("season")
    /\ ~Outage("last10")
    /\ store_get(rows, ret.slate_date, "season") = ret.existing.season
    /\ store_get(rows, ret.slate_date, "last10") = ret.fresh.last10
    /\ ret.fresh.last10.games # <<>>

(***************************************************************************)
(* The snapshot store on its own: upsert, delete_slate and get called in   *)
(* any order.  `shadow` is the map the store is meant to implement: for    *)
(* each (slate_date, window) the response last upserted, or None.          *)
(***************************************************************************)
\* responses a caller may hand to upsert for (slate_date, window)
StoredVariants(slate_date, window) ==
    { MatchupResponse(slate_date, as_of_date_for_slate(slate_date), window,
                      <<>>, <<>>, <<>>),
      _compute_matchups(<<>>, {}, slate_date, window, 0, Nominal).response,
      _compute_matchups(<<>>, {}, slate_date, window, 0,
          [Nominal EXCEPT !.feed = [raises |-> FALSE,
                                    injuries |-> <<InjuryTag(Al, BOS, OUT)>>]]).response }

InitStore ==
    /\ now = 0
    /\ disk = None
    /\ injury_cache = <<>>
    /\ cache = <<>>
    /\ rows = {}
    /\ cards = {}
    /\ legacy = {}
    /\ shadow = NoShadow
    /\ nops = 0
    /\ ret = [op |-> "init"]
    /\ tasks = <<>>
    /\ arg = None

StoreUpsert ==
    /\ nops < MaxStoreOps
    /\ \E slate_date \in Slates, window \in Windows :
          \E matchup_response \in StoredVariants(slate_date, window) :
              /\ rows' = store_upsert(rows, matchup_response, now)
              /\ shadow' = [shadow EXCEPT ![<<slate_date, window>>] = matchup_response]
              /\ ret' = [op |-> "upsert", slate_date |-> slate_date, window |-> window,
                         replaced |-> /\ shadow[<<slate_date, window>>] # None
                                      /\ shadow[<<slate_date, window>>] # matchup_response,
                         after |-> Brief(ret)]
    /\ nops' = nops + 1
    /\ UNCHANGED <<injury_cache, disk, tasks, arg, now, cache, cards, legacy>>

StoreDeleteSlate ==
    /\ nops < MaxStoreOps
    /\ \E slate_date \in Slates :
          \E r \in {delete_slate(rows, slate_date)} :
              /\ rows' = r.rows
              /\ shadow' = [k \in DOMAIN shadow |->
                               IF k[1] = slate_date THEN None ELSE shadow[k]]
              /\ ret' = [op |-> "delete_slate", slate_date |-> slate_date,
                         count |-> r.count, after |-> Brief(ret)]
    /\ nops' = nops + 1
    /\ UNCHANGED <<injury_cache, disk, tasks, arg, now, cache, cards, legacy>>

StoreGet ==
    /\ nops < MaxStoreOps
    /\ \E slate_date \in Slates, window \in Windows :
          ret' = [op |-> "get", slate_date |-> slate_date, window |-> window,
                  result |-> store_get(rows, slate_date, window),
                  after |-> Brief(ret)]
    /\ nops' = nops + 1
    /\ UNCHANGED <<injury_cache, disk, tasks, arg, now, cache, rows, cards, legacy, shadow>>

NextStore == StoreUpsert \/ StoreDeleteSlate \/ StoreGet

SpecStore == InitStore /\ [][NextStore]_vars

\* the keys of the map that hold a response
Held == {k \in DOMAIN shadow : shadow[k] # None}

\* C9: the store is a map keyed by (slate_date, window).  After any sequence of
\* upsert and delete_slate, get returns a response equal in every field to the
\* one last upserted under the key, or nothing when the key was never upserted or
\* its slate was deleted since; an upsert on an existing key replaces the row (the
\* table has one row per held key); delete_slate returns the number of rows it
\* removed and leaves the rows of other slates as they were.
C9_StoreIsMap ==
    /\ [](\A k \in DOMAIN shadow : store_get(rows, k[1], k[2]) = shadow[k])
    /\ [](Cardinality(rows) = Cardinality(Held))
    /\ [](ret.op = "get" => ret.result = shadow[<<ret.slate_date, ret.window>>])
    /\ [][(nops' = nops + 1 /\ ret'.op = "delete_slate") =>
            /\ ret'.count = Cardinality(rows) - Cardinality(rows')
            /\ ret'.count = Cardinality({k \in Held : k[1] = ret'.slate_date})
            /\ \A r \in rows : r.slate_date # isoformat(ret'.slate_date) => r \in rows'
            /\ \A r \in rows' : r \in rows /\ r.slate_date # isoformat(ret'.slate_date)]_vars

\* after upserts and the deletion of the other slate, get returned the response
\* last upserted under the key, its nested players and injuries included
C9_Witness ==
    /\ ret.op = "get"
    /\ ret.result # None
    /\ ret.result.players # <<>>
    /\ ret.result.injuries # <<>>
    /\ ret.result = shadow[<<ret.slate_date, ret.window>>]
    /\ ret.after.op = "delete_slate"
    /\ Cardinality(rows) = 1

(***************************************************************************)
(* Player cards: get_player_card beside the computations that store cards. *)
(***************************************************************************)
\* the players asked for: one of each slate and one the league does not know
CardPlayers == {1, 3, 9}

\* PlayerCardWindow
CardWindows == {"season", "last10", "last5"}

CardEnvs ==
    {Nominal,
     [Nominal EXCEPT !.games_up = FALSE],
     [Nominal EXCEPT !.build_ok = FALSE],
     [Nominal EXCEPT !.cards_ok = FALSE],
     [Nominal EXCEPT !.backfill_ok = FALSE]}

WarmEnvs == {Nominal, [Nominal EXCEPT !.build_ok = FALSE], [Nominal EXCEPT !.cards_ok = FALSE]}

\* a season card left in the legacy table by an earlier release
LegacyCard ==
    [player_id |-> 3, player_name |-> Cy, team |-> PHI,
     season |-> season_label_for_date(Slate1),
     as_of_date |-> isoformat(MinusOneDay(MinusOneDay(Slate1))),
     position_group |-> "Centers", mpg |-> 250, ppg |-> 90, updated_at |-> 0]

InitCards ==
    /\ now = 0
    /\ disk = None
    /\ injury_cache = <<>>
    /\ cache = <<>>
    /\ rows = {}
    /\ cards = {}
    /\ legacy \in {{}, {LegacyCard}}
    /\ shadow = NoShadow
    /\ nops = 0
    /\ ret = [op |-> "init"]
    /\ tasks = <<>>
    /\ arg = None

\* the matchups of the day are requested, which stores the cards of its snapshot
WarmUp == GetMatchupsFor({Today}, WarmEnvs)

GetPlayerCard ==
    /\ nops < MaxOps
    /\ \E player_id \in CardPlayers, slate_date \in {None, Slate2},
          window \in CardWindows, env \in CardEnvs :
          \E r \in {get_player_card(cache, cards, legacy, player_id, slate_date,
                                    window, now, env)} :
              /\ cache' = r.cache
              /\ cards' = r.cards
              /\ ret' = [op |-> "get_player_card", player_id |-> player_id,
                         slate_date |-> slate_date, window |-> window, at |-> now,
                         env |-> env,
                         no_card |-> \A c \in cards \cup legacy : c.player_id # player_id,
                         season_card |-> get_player_card_as_of(cards, legacy, player_id,
                                             IF slate_date = None THEN Today ELSE slate_date,
                                             "season"),
                         cold_cache |-> DOMAIN cache = {},
                         result |-> r.result, populated |-> r.populated,
                         builds |-> r.builds, stored |-> r.stored,
                         after |-> Brief(ret)]
    /\ nops' = nops + 1
    /\ UNCHANGED <<injury_cache, disk, tasks, arg, now, rows, legacy, shadow>>

NextCards == WarmUp \/ GetPlayerCard

SpecCards == InitCards /\ [][NextCards]_vars

\* get_player_card(player_id) with the default window found no card of the player
ColdStart ==
    /\ ret.op = "get_player_card"
    /\ ret.window = "season"
    /\ ret.no_card

\* the date the request is about
CardDate == IF ret.slate_date = None THEN Today ELSE ret.slate_date

\* the card the store now returns to the lookup the request ends with
StoredCard ==
    IF ret.slate_date # None
    THEN get_player_card_as_of(cards, legacy, ret.player_id, ret.slate_date, ret.window)
    ELSE get_latest_player_card(cards, legacy, ret.player_id, ret.window)

\* the player is in the league and on a team of the date's schedule
OnTheSlate ==
    \E i \in 1..Len(LeaguePlayers) :
        /\ LeaguePlayers[i].player_id = ret.player_id
        /\ LeaguePlayers[i].team \in slate_teams_of(Schedule(CardDate))

WindowStillMissing ==
    /\ ret.op = "get_player_card"
    /\ ret.window # "season"
    /\ ret.season_card # None
    /\ StoredCard = None

\* C11: get_player_card for a non-season window (last10 or last5), when a season
\* card exists as of the request date but the fast backfill still leaves no card of
\* the window, returns that season card: not None (not found), not an error, and
\* without running the cold-start population.
C11_SeasonCardSubstitute ==
    WindowStillMissing =>
        /\ ret.result # None
        /\ ret.result = ret.season_card
        /\ ret.result.window = "season"
        /\ ret.result.player_id = ret.player_id
        /\ ~ret.populated
        /\ ret.builds = 0

\* the backfill produced nothing for a last5 request and the season card of the
\* day's snapshot came back
C11_Witness ==
    /\ WindowStillMissing
    /\ ret.window = "last5"
    /\ ~ret.env.backfill_ok
    /\ ret.result = ret.season_card
    /\ ret.result.window = "season"
    /\ \E r \in cards : r.player_id = ret.player_id /\ r.window_key = "season"

(***************************************************************************)
(* Concurrent get_matchups requests.  The service runs on one event loop,  *)
(* so a coroutine runs undisturbed between its awaits: get_matchups awaits *)
(* fetch_injuries inside _compute_matchups (after the schedule is read)    *)
(* and once more before the overlay.  A request is three steps.            *)
(***************************************************************************)
Requests == {1, 2}

Idle ==
    [pc |-> "idle", slate_date |-> None, window |-> None, games_up |-> FALSE,
     computed |-> FALSE, base |-> None, wrote_at |-> 0, result |-> None]

\* get_matchups from its entry to its first await: the cache and store lookups
\* and, when nothing fresh is held, the schedule read of _compute_matchups
get_matchups_begin(c, tbl, slate_date, window, t) ==
    LET base_cache_key == matchups_key(slate_date, window)
        got == cache_get(c, base_cache_key, t)
        stored == IF got.value = None THEN store_get(tbl, slate_date, window) ELSE None
        held == IF got.value = None THEN stored ELSE got.value
    IN  [cache |-> IF got.value = None /\ stored # None
                   THEN cache_set(got.cache, base_cache_key, stored, t)
                   ELSE got.cache,
         held |-> held,
         compute |-> held = None \/ is_stale(held, as_of_date_for_slate(slate_date))]

\* get_matchups from the injuries arriving in _compute_matchups to the await of
\* the overlay: the rest of the computation, the upsert and the cache write
get_matchups_computed(c, tbl, ctbl, frame, t, env) ==
    LET done == _compute_matchups(c, ctbl, frame.slate_date, frame.window, t,
                                  [env EXCEPT !.games_up = frame.games_up])
    IN  [base  |-> done.response,
         cache |-> cache_set(done.cache, matchups_key(frame.slate_date, frame.window),
                             done.response, t),
         rows  |-> IF env.upsert_ok THEN store_upsert(tbl, done.response, t) ELSE tbl,
         cards |-> done.cards]

\* get_matchups from the live injuries arriving to its return
get_matchups_end(frame, feed) ==
    _with_injury_overlay(frame.base,
                         IF feed.raises THEN frame.base.injuries ELSE feed.injuries)

InitRace ==
    /\ now = 0
    /\ disk = None
    /\ injury_cache = <<>>
    /\ cache = <<>>
    /\ rows = {}
    /\ cards = {}
    /\ legacy = {}
    /\ shadow = NoShadow
    /\ nops = 0
    /\ ret = [op |-> "init"]
    /\ tasks = [i \in Requests |-> Idle]
    /\ arg = None

RaceBegin ==
    \E i \in Requests, window \in Windows, games_up \in BOOLEAN :
        /\ tasks[i].pc = "idle"
        /\ \E r \in {get_matchups_begin(cache, rows, Today, window, now)} :
              /\ cache' = r.cache
              /\ tasks' = [tasks EXCEPT ![i] =
                    [Idle EXCEPT !.pc = IF r.compute THEN "injuries" ELSE "overlay",
                                 !.slate_date = Today, !.window = window,
                                 !.games_up = games_up, !.base = r.held]]
        /\ nops' = nops + 1
        /\ UNCHANGED <<now, rows, cards, legacy, shadow, ret, arg, disk, injury_cache>>

RaceComputed ==
    \E i \in Requests, env \in GetMatchupsEnvs :
        /\ tasks[i].pc = "injuries"
        /\ \E r \in {get_matchups_computed(cache, rows, cards, tasks[i], now, env)} :
              /\ cache' = r.cache
              /\ rows' = r.rows
              /\ cards' = r.cards
              /\ tasks' = [tasks EXCEPT ![i] =
                    [@ EXCEPT !.pc = "overlay", !.computed = TRUE, !.base = r.base,
                              !.wrote_at = IF env.upsert_ok THEN nops + 1 ELSE 0]]
        /\ nops' = nops + 1
        /\ UNCHANGED <<now, legacy, shadow, ret, arg, disk, injury_cache>>

RaceEnd ==
    \E i \in Requests, feed \in InjuryFeeds :
        /\ tasks[i].pc = "overlay"
        /\ tasks' = [tasks EXCEPT ![i] =
              [@ EXCEPT !.pc = "done", !.result = get_matchups_end(tasks[i], feed)]]
        /\ nops' = nops + 1
        /\ UNCHANGED <<now, cache, rows, cards, legacy, shadow, ret, arg, disk, injury_cache>>

NextRace == Tick \/ RaceBegin \/ RaceComputed \/ RaceEnd

SpecRace == InitRace /\ [][NextRace]_vars

\* both requests asked for the same (slate, window), both ran the computation
\* and both have returned
BothComputed ==
    /\ \A i \in Requests : tasks[i].pc = "done" /\ tasks[i].computed
    /\ tasks[1].window = tasks[2].window

\* the requests whose upsert was carried out, and the last of them
Writers == {i \in Requests : tasks[i].wrote_at > 0}

LastWriter == CHOOSE i \in Writers : \A j \in Writers : tasks[j].wrote_at <= tasks[i].wrote_at

RaceRows ==
    {r \in rows : r.slate_date = isoformat(Today) /\ r.window_key = tasks[1].window}

\* C12: two concurrent first-time get_matchups requests for the same
\* (slate, window), started with empty cache and store, may both run the
\* computation end to end; neither fails, each returns the response it computed
\* under the live injury overlay, and afterwards the durable store holds exactly
\* one row for (slate, window), equal to the response upserted by the request that
\* upserted last (no row only when the upsert of both raised and was swallowed).
C12_LastWriterWins ==
    BothComputed =>
        /\ \A i \in Requests :
              /\ tasks[i].result # None
              /\ tasks[i].result.slate_date = Today
              /\ tasks[i].result.window = tasks[i].window
              /\ tasks[i].result.games = tasks[i].base.games
              /\ Len(tasks[i].result.players) = Len(tasks[i].base.players)
        /\ Cardinality(RaceRows) <= 1
        /\ Writers = {} => RaceRows = {}
        /\ Writers # {} =>
              /\ Cardinality(RaceRows) = 1
              /\ store_get(rows, Today, tasks[1].window) = tasks[LastWriter].base

\* both requests computed and upserted different responses; the row is the one
\* of the second writer, not of the first
C12_Witness ==
    /\ BothComputed
    /\ Writers = Requests
    /\ tasks[1].base # tasks[2].base
    /\ Cardinality(RaceRows) = 1
    /\ store_get(rows, Today, tasks[1].window) = tasks[LastWriter].base
    /\ store_get(rows, Today, tasks[1].window) # tasks[3 - LastWriter].base

(***************************************************************************)
(* Sequences of get_matchups calls for one slate: ret keeps the log of the *)
(* calls made so far (what each call computed and built, and under which   *)
(* snapshot key).                                                          *)
(***************************************************************************)
MaxCalls == 3

MemoEnvs ==
    {Nominal,
     [Nominal EXCEPT !.games_up = FALSE],
     [Nominal EXCEPT !.build_ok = FALSE],
     [Nominal EXCEPT !.upsert_ok = FALSE]}

\* the snapshot cache key _compute_matchups uses for the slate when the schedule
\* read yields `games`
snapshot_key_for(slate_date, games) ==
    snapshot_key(season_label_for_date(slate_date), as_of_date_for_slate(slate_date),
                 team_token(slate_teams_of(games)))

InitMemo ==
    /\ now = 0
    /\ disk = None
    /\ injury_cache = <<>>
    /\ cache = <<>>
    /\ rows = {}
    /\ cards = {}
    /\ legacy = {}
    /\ shadow = NoShadow
    /\ nops = 0
    /\ ret = [op |-> "log", log |-> <<>>]
    /\ tasks = <<>>
    /\ arg = None

MemoGetMatchups ==
    /\ Len(ret.log) < MaxCalls
    /\ \E window \in Windows, env \in MemoEnvs :
          \E r \in {get_matchups(cache, rows, cards, Today, window, now, env)} :
              /\ cache' = r.cache
              /\ rows' = r.rows
              /\ cards' = r.cards
              /\ ret' = [ret EXCEPT !.log = Append(@,
                            [op |-> "get_matchups", at |-> now, window |-> window,
                             key |-> snapshot_key_for(Today,
                                         fetch_slate_games(Today, env.games_up)),
                             computes |-> Len(r.computes), builds |-> r.builds])]
    /\ nops' = nops + 1
    /\ UNCHANGED <<now, legacy, shadow, tasks, arg, disk, injury_cache>>

MemoRefresh ==
    /\ Len(ret.log) < MaxCalls
    /\ \E r \in {refresh(cache, rows, cards, Today, FALSE, now, Nominal)} :
          /\ cache' = r.cache
          /\ rows' = r.rows
          /\ cards' = r.cards
          /\ ret' = [ret EXCEPT !.log = Append(@,
                        [op |-> "refresh", at |-> now, window |-> "",
                         key |-> <<>>, computes |-> 0, builds |-> 0])]
    /\ nops' = nops + 1
    /\ UNCHANGED <<now, legacy, shadow, tasks, arg, disk, injury_cache>>

NextMemo == Tick \/ MemoGetMatchups \/ MemoRefresh

SpecMemo == InitMemo /\ [][NextMemo]_vars

\* call j follows call i, both are get_matchups calls that use the same snapshot
\* key, call i built the snapshot, call j falls within its TTL and no refresh
\* lies between them
MemoizedFor(i, j) ==
    /\ i < j
    /\ ret.log[i].op = "get_matchups"
    /\ ret.log[j].op = "get_matchups"
    /\ ret.log[i].key = ret.log[j].key
    /\ ret.log[i].builds = 1
    /\ ret.log[j].at < ret.log[i].at + Ttl
    /\ \A k \in i..j : ret.log[k].op # "refresh"

MaxTeams == 3
MaxVal == 1

PositionGroups == <<"Guards", "Forwards", "Centers">>

\* team_group_stats.get(team, {}).get(group, {}).get(stat, 0.0)
stat_value(team_group_stats, team, group, stat) ==
    DictGet(DictGet(DictGet(team_group_stats, team, <<>>), group, <<>>), stat, 0)

RECURSIVE insert_reversing_ties(_, _)
insert_reversing_ties(item, s) ==
    IF s = <<>> THEN <<item>>
    ELSE IF Head(s)[2] > item[2] THEN <<Head(s)>> \o insert_reversing_ties(item, Tail(s))
    ELSE <<item>> \o s

\* the place of a (team, value) item among the sorted items that precede it in
\* the list: behind every item whose value is not smaller
RECURSIVE insert_desc(_, _)
insert_desc(item, s) ==
    IF s = <<>> THEN <<item>>
    ELSE IF Head(s)[2] >= item[2] THEN <<Head(s)>> \o insert_desc(item, Tail(s))
    ELSE <<item>> \o s

RECURSIVE sort_reversing_ties(_)
sort_reversing_ties(values) ==
    IF values = <<>> THEN <<>>
    ELSE insert_reversing_ties(values[Len(values)],
                               sort_reversing_ties(SubSeq(values, 1, Len(values) - 1)))

\* values.sort(key=lambda item: item[1], reverse=True): stable, descending
RECURSIVE sort_by_value_desc(_)
sort_by_value_desc(values) ==
    IF values = <<>> THEN <<>>
    ELSE insert_desc(values[Len(values)],
                     sort_by_value_desc(SubSeq(values, 1, Len(values) - 1)))

\* scoring.build_rank_tables
build_rank_tables(team_group_stats, teams) ==
    LET values(group, stat) ==
            [i \in 1..Len(teams) |->
                <<teams[i], stat_value(team_group_stats, teams[i], group, stat)>>]
        order == [group \in Range(PositionGroups) |->
                     [stat \in Range(SUPPORTED_STATS) |->
                         sort_by_value_desc(values(group, stat))]]
        \* ranks[team][group][stat] = index, a later index overwriting an earlier
        index(team, sorted_values) ==
            CHOOSE i \in 1..Len(sorted_values) :
                /\ sorted_values[i][1] = team
                /\ \A j \in 1..Len(sorted_values) : sorted_values[j][1] = team => j <= i
    IN  [team \in Range(teams) |->
            [group \in Range(PositionGroups) |->
                [stat \in Range(SUPPORTED_STATS) |-> index(team, order[group][stat])]]]

\* the teams of the league the inputs are drawn from
AllTeams == {BOS, CHI, NYK, PHI}

\* lists of distinct teams, in any order
TeamLists ==
    {s \in UNION {[1..n -> AllTeams] : n \in 0..MaxTeams} :
        \A i, j \in 1..Len(s) : i # j => s[i] # s[j]}

\* a conceded-stats table: v[team] is the guards' PTS average of a team, or -1
\* for a team the table has no entry for
StatTable(present, v) ==
    [team \in present |->
        ("Guards" :> ("PTS" :> v[team] @@ "REB" :> MaxVal - v[team]))]

InitRank ==
    /\ now = 0
    /\ disk = None
    /\ injury_cache = <<>>
    /\ cache = <<>>
    /\ rows = {}
    /\ cards = {}
    /\ legacy = {}
    /\ shadow = NoShadow
    /\ nops = 0
    /\ ret = [op |-> "init"]
    /\ tasks = <<>>
    /\ \E s \in TeamLists :
          \E v \in [Range(s) -> -1..MaxVal] :
              arg = [teams |-> s,
                     team_group_stats |-> StatTable({t \in Range(s) : v[t] >= 0}, v)]

BuildRankTables ==
    /\ ret.op = "init"
    /\ ret' = [op |-> "build_rank_tables", teams |-> arg.teams,
               team_group_stats |-> arg.team_group_stats,
               ranks |-> build_rank_tables(arg.team_group_stats, arg.teams)]
    /\ UNCHANGED <<now, cache, rows, cards, legacy, shadow, nops, tasks, arg, disk, injury_cache>>

\* _compute_matchups reads the ranks of a guard's opponent out of the table
FaceOpponent ==
    /\ ret.op = "build_rank_tables"
    /\ \E opponent \in AllTeams :
          ret' = [op |-> "player_matchup", teams |-> ret.teams,
                  team_group_stats |-> ret.team_group_stats, ranks |-> ret.ranks,
                  opponent |-> opponent,
                  player |-> player_matchup(LeaguePlayers[1], opponent, ret.ranks,
                                            <<>>, <<>>)]
    /\ UNCHANGED <<now, cache, rows, cards, legacy, shadow, nops, tasks, arg, disk, injury_cache>>

NextRank == BuildRankTables \/ FaceOpponent

SpecRank == InitRank /\ [][NextRank]_vars

\* the value build_rank_tables read for a team of the last call
Allowed(team, group, stat) == stat_value(ret.team_group_stats, team, group, stat)

\* C14: for every (position group, stat) pair, the ranks build_rank_tables
\* assigns to the given teams form a permutation of 1..teamCount, ordered by
\* descending allowed value, equal values keeping the order in which the teams
\* were enumerated (no alphabetical or value-based re-ordering of ties).
C14_RanksArePermutation ==
    ret.op = "build_rank_tables" =>
        /\ DOMAIN ret.ranks = Range(ret.teams)
        /\ \A group \in Range(PositionGroups), stat \in Range(SUPPORTED_STATS) :
              /\ {ret.ranks[t][group][stat] : t \in Range(ret.teams)} = 1..Len(ret.teams)
              /\ \A i, j \in 1..Len(ret.teams) :
                    LET a == ret.teams[i]
                        b == ret.teams[j]
                    IN  \/ Allowed(a, group, stat) > Allowed(b, group, stat)
                        \/ Allowed(a, group, stat) = Allowed(b, group, stat) /\ i < j
                        => ret.ranks[a][group][stat] < ret.ranks[b][group][stat]

\* three teams were ranked: the first two tie on the guards' PTS and keep their
\* order although the second comes first in the alphabet, the third allows more
\* and is ranked first
C14_Witness ==
    /\ ret.op = "build_rank_tables"
    /\ Len(ret.teams) = 3
    /\ TextLT(ret.teams[2], ret.teams[1])
    /\ Allowed(ret.teams[1], "Guards", "PTS") = Allowed(ret.teams[2], "Guards", "PTS")
    /\ Allowed(ret.teams[3], "Guards", "PTS") > Allowed(ret.teams[1], "Guards", "PTS")
    /\ ret.ranks[ret.teams[3]]["Guards"]["PTS"] = 1
    /\ ret.ranks[ret.teams[1]]["Guards"]["PTS"] = 2
    /\ ret.ranks[ret.teams[2]]["Guards"]["PTS"] = 3

\* C15 as the specification states it: a team the conceded-stats table has no
\* entries for receives no rank from build_rank_tables, and a player of the group
\* who faces that team gets rank 30 and tier "red" for the stat.
C15_Stated ==
    /\ ret.op \in {"build_rank_tables", "player_matchup"} =>
          \A t \in Range(ret.teams) :
              t \notin DOMAIN ret.team_group_stats => t \notin DOMAIN ret.ranks
    /\ (ret.op = "player_matchup" /\ ret.opponent \notin DOMAIN ret.team_group_stats) =>
          /\ ret.player.stat_ranks["PTS"] = 30
          /\ ret.player.stat_tiers["PTS"] = "red"

\* C15 as the code has it: a listed team without entries is ranked on the
\* value 0.0 like any other, and the player facing it gets that rank; only an
\* opponent that is not among the ranked teams leaves the player at 30 and "red"
C15_AbsentTeamRankedOnZero ==
    ret.op = "player_matchup" =>
        /\ \A t \in Range(ret.teams) : t \in DOMAIN ret.ranks
        /\ ret.opponent \in Range(ret.teams) =>
              /\ ret.player.stat_ranks["PTS"] = ret.ranks[ret.opponent]["Guards"]["PTS"]
              /\ ret.player.stat_ranks["PTS"] <= Len(ret.teams)
              /\ ret.player.stat_tiers["PTS"] = to_tier(ret.player.stat_ranks["PTS"])
        /\ ret.opponent \notin Range(ret.teams) =>
              /\ ret.player.stat_ranks["PTS"] = 30
              /\ ret.player.stat_tiers["PTS"] = "red"

\* a guard faces a team the table has no entry for and gets its rank, 1
C15_Witness ==
    /\ ret.op = "player_matchup"
    /\ ret.opponent \in Range(ret.teams)
    /\ ret.opponent \notin DOMAIN ret.team_group_stats
    /\ ret.player.stat_ranks["PTS"] = 1
    /\ ret.player.stat_tiers["PTS"] = "green"

(***************************************************************************)
(* Environment scores (services/scoring.py, utils.normalize_score).  The   *)
(* metrics are integers; a normalized score is the exact fraction          *)
(* <<numerator, denominator>>; an environment score, which the code rounds *)
(* to two decimals, is its number of hundredths.                           *)
(***************************************************************************)
MaxMetric == 3

normalize_score_zero_when_flat(value, min_value, max_value) ==
    IF max_value <= min_value THEN <<0, 1>>
    ELSE <<(value - min_value) * 100, max_value - min_value>>

\* utils.normalize_score
normalize_score(value, min_value, max_value) ==
    IF max_value <= min_value THEN <<50, 1>>
    ELSE <<(value - min_value) * 100, max_value - min_value>>

\* round(n / d, 0) for d > 0: to the nearest integer, a half to the even one
round_half_even(n, d) ==
    LET q == n \div d
        r == n % d
    IN  IF 2 * r < d THEN q
        ELSE IF 2 * r > d THEN q + 1
        ELSE IF q % 2 = 0 THEN q ELSE q + 1

\* min(values) if values else 0.0, and max likewise, of a list
min_of(values) ==
    IF values = <<>> THEN 0
    ELSE CHOOSE m \in Range(values) : \A v \in Range(values) : m <= v

max_of(values) ==
    IF values = <<>> THEN 0
    ELSE CHOOSE m \in Range(values) : \A v \in Range(values) : v <= m

\* scoring.build_environment_scores: team -> score in hundredths
build_environment_scores(team_metrics, teams) ==
    LET metric(team, name) == DictGet(DictGet(team_metrics, team, <<>>), name, 0)
        defense_values == [i \in 1..Len(teams) |-> metric(teams[i], "def_rating")]
        pace_values == [i \in 1..Len(teams) |-> metric(teams[i], "pace")]
        min_def == min_of(defense_values)
        max_def == max_of(defense_values)
        min_pace == min_of(pace_values)
        max_pace == max_of(pace_values)
        score(team) ==
            LET def_score == normalize_score(metric(team, "def_rating"), min_def, max_def)
                pace_score == normalize_score(metric(team, "pace"), min_pace, max_pace)
            \* round((0.6 * def_score) + (0.4 * pace_score), 2), in hundredths
            IN  round_half_even(
                    (60 * def_score[1] * pace_score[2]) + (40 * pace_score[1] * def_score[2]),
                    def_score[2] * pace_score[2])
    IN  [team \in Range(teams) |-> score(team)]

\* team_abbrs: the listed teams, sorted
SortedTeamLists == {sorted(S) : S \in {T \in SUBSET AllTeams : Cardinality(T) <= MaxTeams}}

\* what team_metrics may hold for a team: nothing, or a defensive rating and a pace
MetricChoices ==
    {None} \cup {[def_rating |-> d, pace |-> p] : d \in 0..MaxMetric, p \in 0..1}

TeamMetrics(m) ==
    [team \in {t \in DOMAIN m : m[t] # None} |->
        ("def_rating" :> m[team].def_rating @@ "pace" :> m[team].pace)]

InitEnv ==
    /\ now = 0
    /\ disk = None
    /\ injury_cache = <<>>
    /\ cache = <<>>
    /\ rows = {}
    /\ cards = {}
    /\ legacy = {}
    /\ shadow = NoShadow
    /\ nops = 0
    /\ ret = [op |-> "init"]
    /\ tasks = <<>>
    /\ \E s \in SortedTeamLists :
          \E m \in [Range(s) -> MetricChoices] :
              arg = [teams |-> s, team_metrics |-> TeamMetrics(m)]

BuildEnvironmentScores ==
    /\ ret.op = "init"
    /\ ret' = [op |-> "build_environment_scores", teams |-> arg.teams,
               team_metrics |-> arg.team_metrics,
               scores |-> build_environment_scores(arg.team_metrics, arg.teams)]
    /\ UNCHANGED <<now, cache, rows, cards, legacy, shadow, nops, tasks, arg, disk, injury_cache>>

NextEnv == BuildEnvironmentScores

SpecEnv == InitEnv /\ [][NextEnv]_vars

\* the metric build_environment_scores read for a team of the last call
Metric(team, name) == DictGet(DictGet(ret.team_metrics, team, <<>>), name, 0)

\* the league's metric range is degenerate: all listed teams have the same
\* defensive rating and the same pace
Degenerate ==
    \A a, b \in Range(ret.teams) :
        /\ Metric(a, "def_rating") = Metric(b, "def_rating")
        /\ Metric(a, "pace") = Metric(b, "pace")

\* C16: every environment score build_environment_scores produces lies in
\* [0, 100] (0..10000 hundredths), one score per listed team; when all listed
\* teams have equal defensive rating and equal pace every score is exactly 50.0.
C16_ScoresInRange ==
    ret.op = "build_environment_scores" =>
        /\ DOMAIN ret.scores = Range(ret.teams)
        /\ \A t \in Range(ret.teams) : ret.scores[t] >= 0 /\ ret.scores[t] <= 10000
        /\ Degenerate => \A t \in Range(ret.teams) : ret.scores[t] = 5000

\* three teams: the scores reach both ends of the range and a rounded value
\* strictly inside it
C16_Witness ==
    /\ ret.op = "build_environment_scores"
    /\ Len(ret.teams) = 3
    /\ ~Degenerate
    /\ \E t \in Range(ret.teams) : ret.scores[t] = 0
    /\ \E t \in Range(ret.teams) : ret.scores[t] = 10000
    /\ \E t \in Range(ret.teams) :
          ret.scores[t] > 0 /\ ret.scores[t] < 10000 /\ ret.scores[t] # 5000

\* the degenerate league: three teams with the same metrics score 50.0 each
C16_WitnessFlat ==
    /\ ret.op = "build_environment_scores"
    /\ Len(ret.teams) = 3
    /\ Degenerate
    /\ DOMAIN ret.team_metrics = Range(ret.teams)
    /\ \A t \in Range(ret.teams) : ret.scores[t] = 5000

(***************************************************************************)
(* The order of players[]: get_matchups computing from a snapshot that an  *)
(* earlier build left in the cache, its rotation pool, ranks and           *)
(* environment scores varying.                                             *)
(***************************************************************************)
MaxPool == 3

\* rotation-pool entries: two guards of one team, a guard of the other, and a
\* forward who shares his name with one of the guards
PoolCandidates ==
    {[player_id |-> 1, player_name |-> Al, team |-> BOS, avg_minutes |-> 300,
      position_group |-> "Guards"],
     [player_id |-> 2, player_name |-> Bo, team |-> BOS, avg_minutes |-> 280,
      position_group |-> "Guards"],
     [player_id |-> 3, player_name |-> Cy, team |-> CHI, avg_minutes |-> 250,
      position_group |-> "Guards"],
     [player_id |-> 4, player_name |-> Al, team |-> CHI, avg_minutes |-> 200,
      position_group |-> "Forwards"]}

Pools ==
    {s \in UNION {[1..n -> PoolCandidates] : n \in 0..MaxPool} :
        \A i, j \in 1..Len(s) : i # j => s[i] # s[j]}

\* a snapshot as build_snapshot returns it: the guards' PTS rank and the
\* environment score of each team of the slate, last10 mirroring season
DrawnSnapshot(pool, rank, score) ==
    [rotation_pool |-> pool,
     player_cards |-> <<>>,
     season |-> [ranks |-> (CHI :> ("Guards" :> GuardRanks(rank[CHI]))
                            @@ BOS :> ("Guards" :> GuardRanks(rank[BOS]))),
                 environment |-> (CHI :> score[CHI] @@ BOS :> score[BOS])],
     last10 |-> [ranks |-> (CHI :> ("Guards" :> GuardRanks(rank[BOS]))
                            @@ BOS :> ("Guards" :> GuardRanks(rank[CHI]))),
                 environment |-> (CHI :> score[BOS] @@ BOS :> score[CHI])]]

InitSort ==
    /\ now = 0
    /\ disk = None
    /\ injury_cache = <<>>
    /\ \E pool \in Pools, rank \in [{BOS, CHI} -> {3, 7}], score \in [{BOS, CHI} -> {400, 600}] :
          cache = cache_set(<<>>, snapshot_key_for(Today, Schedule(Today)),
                            DrawnSnapshot(pool, rank, score), 0)
    /\ rows = {}
    /\ cards = {}
    /\ legacy = {}
    /\ shadow = NoShadow
    /\ nops = 0
    /\ ret = [op |-> "init"]
    /\ tasks = <<>>
    /\ arg = None

SortGetMatchups == GetMatchupsFor({Today}, {Nominal})

NextSort == SortGetMatchups

SpecSort == InitSort /\ [][NextSort]_vars

\* the smallest rank among a player's stats, 30 for a player without any
MinRankOf(player) ==
    IF DOMAIN player.stat_ranks = {} THEN 30
    ELSE CHOOSE m \in 1..30 :
            /\ \E k \in DOMAIN player.stat_ranks : player.stat_ranks[k] = m
            /\ \A k \in DOMAIN player.stat_ranks : player.stat_ranks[k] >= m

\* player a may stand before player b
InOrder(a, b) ==
    \/ MinRankOf(a) < MinRankOf(b)
    \/ /\ MinRankOf(a) = MinRankOf(b)
       /\ a.environment_score > b.environment_score
    \/ /\ MinRankOf(a) = MinRankOf(b)
       /\ a.environment_score = b.environment_score
       /\ TextLE(a.player_name, b.player_name)

\* the call computed its response
ComputedResponse == ret.op = "get_matchups" /\ ret.computes # <<>>

\* C17: the players list of every computed MatchupResponse is sorted ascending
\* by the player's minimum rank across their stats (30 if the player has none),
\* then descending by environment score, then ascending by player name; it holds
\* the players of the rotation pool, each once, and the response returned under
\* the injury overlay keeps the order.
C17_PlayersSorted ==
    ComputedResponse =>
        /\ \A i, j \in 1..Len(ret.base.players) :
              i < j => InOrder(ret.base.players[i], ret.base.players[j])
        /\ \A i, j \in 1..Len(ret.base.players) :
              i # j => ret.base.players[i].player_id # ret.base.players[j].player_id
        /\ Len(ret.result.players) = Len(ret.base.players)
        /\ \A i \in 1..Len(ret.base.players) :
              ret.result.players[i].player_id = ret.base.players[i].player_id

\* three players with the same minimum rank: the one with the higher environment
\* score first, the two others by name, against the order of the rotation pool
C17_Witness ==
    /\ ComputedResponse
    /\ Len(ret.base.players) = 3
    /\ MinRankOf(ret.base.players[1]) = MinRankOf(ret.base.players[3])
    /\ ret.base.players[1].environment_score > ret.base.players[2].environment_score
    /\ ret.base.players[2].environment_score = ret.base.players[3].environment_score
    /\ TextLT(ret.base.players[2].player_name, ret.base.players[3].player_name)
    /\ LET pool == cache[snapshot_key_for(Today, Schedule(Today))].value.rotation_pool
       IN  /\ pool[1].player_id = ret.base.players[3].player_id
           /\ pool[2].player_id = ret.base.players[2].player_id
           /\ pool[3].player_id = ret.base.players[1].player_id

(***************************************************************************)
(* The injury normalizer (services/injury_service.py).  Text is the        *)
(* sequence of its ASCII codes.                                            *)
(***************************************************************************)
MaxRows == 1

DOUBTFUL == <<68, 79, 85, 66, 84, 70, 85, 76>>
QUESTIONABLE == <<81, 85, 69, 83, 84, 73, 79, 78, 65, 66, 76, 69>>
PROBABLE == <<80, 82, 79, 66, 65, 66, 76, 69>>
GTD == <<71, 84, 68>>
UNK == <<85, 78, 75>>

\* InjuryService._STATUS_NORMALIZATION
_STATUS_NORMALIZATION ==
    (<<79, 85, 84>> :> OUT @@ <<79>> :> OUT
     @@ <<68, 79, 85, 66, 84, 70, 85, 76>> :> DOUBTFUL @@ <<68>> :> DOUBTFUL
     @@ <<81, 85, 69, 83, 84, 73, 79, 78, 65, 66, 76, 69>> :> QUESTIONABLE @@ <<81>> :> QUESTIONABLE
     @@ <<80, 82, 79, 66, 65, 66, 76, 69>> :> PROBABLE @@ <<80>> :> PROBABLE
     @@ <<71, 65, 77, 69, 32, 84, 73, 77, 69, 32, 68, 69, 67, 73, 83, 73, 79, 78>> :> GTD
     @@ <<71, 84, 68>> :> GTD)


\* str.strip(): without the blanks at either end
RECURSIVE lstrip(_)
lstrip(s) == IF s # <<>> /\ Head(s) = 32 THEN lstrip(Tail(s)) ELSE s

RECURSIVE rstrip(_)
rstrip(s) == IF s # <<>> /\ s[Len(s)] = 32 THEN rstrip(SubSeq(s, 1, Len(s) - 1)) ELSE s

strip(s) == rstrip(lstrip(s))

\* str.lower()
lower(s) == [i \in 1..Len(s) |-> IF s[i] >= 65 /\ s[i] <= 90 THEN s[i] + 32 ELSE s[i]]

\* `needle in text`
contains(text, needle) ==
    \E i \in 0..(Len(text) - Len(needle)) : SubSeq(text, i + 1, i + Len(needle)) = needle

\* str.isalpha() on ASCII text
isalpha(s) ==
    /\ s # <<>>
    /\ \A i \in 1..Len(s) : (s[i] >= 65 /\ s[i] <= 90) \/ (s[i] >= 97 /\ s[i] <= 122)

\* re.sub(r"[^a-z0-9]+", "", value.lower())
squash(s) ==
    SelectSeq(lower(s), LAMBDA ch : (ch >= 97 /\ ch <= 122) \/ (ch >= 48 /\ ch <= 57))

\* InjuryService._team_abbr_by_name, for the teams of the model's league
_team_abbr_by_name ==
    (<<98, 111, 115, 116, 111, 110, 99, 101, 108, 116, 105, 99, 115>> :> BOS @@ <<99, 104, 105, 99, 97, 103, 111, 98, 117, 108, 108, 115>> :> CHI
     @@ <<110, 101, 119, 121, 111, 114, 107, 107, 110, 105, 99, 107, 115>> :> NYK @@ <<112, 104, 105, 108, 97, 100, 101, 108, 112, 104, 105, 97, 55, 54, 101, 114, 115>> :> PHI)

\* InjuryService._normalize_team
_normalize_team(value) ==
    LET candidate == upper(strip(value))
        normalized == squash(value)
    IN  IF Len(candidate) \in {2, 3, 4} /\ isalpha(candidate) THEN candidate
        ELSE IF normalized = <<>> THEN <<>>
        ELSE DictGet(_team_abbr_by_name, normalized, <<>>)

_normalize_status_by_table_only(raw_status) ==
    IF raw_status = <<>> THEN <<>>
    ELSE DictGet(_STATUS_NORMALIZATION, raw_status, raw_status)

\* InjuryService._normalize_status
_normalize_status(raw_status) ==
    IF raw_status = <<>> THEN <<>>
    ELSE IF DictGet(_STATUS_NORMALIZATION, raw_status, <<>>) # <<>>
         THEN _STATUS_NORMALIZATION[raw_status]
    ELSE IF contains(raw_status, <<71, 65, 77, 69>>) /\ contains(raw_status, <<68, 69, 67, 73, 83, 73, 79, 78>>) THEN GTD
    ELSE IF contains(raw_status, OUT) THEN OUT
    ELSE IF contains(raw_status, <<68, 79, 85, 66, 84>>) THEN DOUBTFUL
    ELSE IF contains(raw_status, <<81, 85, 69, 83, 84, 73, 79, 78>>) THEN QUESTIONABLE
    ELSE IF contains(raw_status, <<80, 82, 79, 66>>) THEN PROBABLE
    ELSE raw_status

\* InjuryService._infer_status_from_text
_infer_status_from_text(text) ==
    LET raw == upper(strip(text))
    IN  IF contains(raw, OUT) THEN OUT
        ELSE IF contains(raw, <<68, 79, 85, 66, 84>>) THEN DOUBTFUL
        ELSE IF contains(raw, <<81, 85, 69, 83, 84, 73, 79, 78>>) THEN QUESTIONABLE
        ELSE IF contains(raw, <<80, 82, 79, 66>>) THEN PROBABLE
        ELSE <<>>

\* str(row.get(k1) or row.get(k2) or ... or ""): the first of the keys with text
RECURSIVE first_of(_, _)
first_of(row, keys) ==
    IF keys = <<>> THEN <<>>
    ELSE IF DictGet(row, Head(keys), <<>>) # <<>> THEN row[Head(keys)]
    ELSE first_of(row, Tail(keys))

\* the loop body of InjuryService._extract_injuries: the record a row yields, as
\* a list of one, or the empty list when the row is dropped
injury_of_row(row, source, default_team) ==
    LET player_name == strip(first_of(row, <<"playerName", "name", "player", "player_name">>))
        raw_team == strip(first_of(row, <<"teamAbbrev", "team", "teamCode", "team_abbrev">>))
        team == IF _normalize_team(raw_team) # <<>> THEN _normalize_team(raw_team)
                ELSE IF default_team # None THEN default_team ELSE <<>>
        raw_status == upper(strip(first_of(row,
                          <<"status", "injuryStatus", "designation", "player_status">>)))
        text == strip(first_of(row, <<"description", "notes", "comment">>))
        comment == IF text = <<>> THEN None ELSE text
        status == IF _normalize_status(raw_status) = <<>> /\ comment # None
                  THEN _infer_status_from_text(comment)
                  ELSE _normalize_status(raw_status)
    IN  IF /\ player_name # <<>>
           /\ ~startswith(upper(player_name), <<73, 78, 74, 85, 82, 89, 95, 83, 84, 65, 84, 85, 83, 95>>)
           /\ status # <<>>
        THEN <<[player_name |-> player_name,
                team |-> IF team # <<>> THEN team ELSE UNK,
                status |-> status, comment |-> comment, source |-> source,
                updated_at |-> None]>>
        ELSE <<>>

\* InjuryService._extract_injuries on a payload that is a list of rows
RECURSIVE _extract_injuries(_, _, _)
_extract_injuries(payload, source, default_team) ==
    IF payload = <<>> THEN <<>>
    ELSE injury_of_row(Head(payload), source, default_team)
         \o _extract_injuries(Tail(payload), source, default_team)


\* the texts a provider row may carry
NameTexts ==
    {<<65, 108>>,          \* "Al"
     <<32>>,          \* " " (blank)
     <<105, 110, 106, 117, 114, 121, 95, 115, 116, 97, 116, 117, 115, 95, 49>>}          \* "injury_status_1"

StatusTexts ==
    {<<79, 117, 116>>,          \* "Out"
     <<113>>,          \* "q"
     <<71, 97, 109, 101, 32, 84, 105, 109, 101, 32, 68, 101, 99, 105, 115, 105, 111, 110>>,          \* "Game Time Decision"
     <<32, 103, 97, 109, 101, 45, 116, 105, 109, 101, 32, 100, 101, 99, 105, 115, 105, 111, 110>>,          \* " game-time decision"
     <<68, 111, 117, 98, 116, 102, 117, 108, 32, 40, 107, 110, 101, 101, 41>>,          \* "Doubtful (knee)"
     <<80, 114, 111, 98, 46>>,          \* "Prob."
     <<81, 117, 101, 115, 116, 105, 111, 110, 97, 98, 108, 101>>,          \* "Questionable"
     <<68, 97, 121, 45, 84, 111, 45, 68, 97, 121>>}          \* "Day-To-Day"

CommentTexts ==
    {<<113, 117, 101, 115, 116, 105, 111, 110, 97, 98, 108, 101, 32, 102, 111, 114, 32, 70, 114, 105, 100, 97, 121>>,          \* "questionable for Friday"
     <<114, 101, 115, 116>>}          \* "rest"

TeamTexts ==
    {<<98, 111, 115>>,          \* "bos"
     <<67, 104, 105, 99, 97, 103, 111, 32, 66, 117, 108, 108, 115>>}          \* "Chicago Bulls"


\* a provider row: a dict that may lack any of its fields, the name and the
\* status under either of two keys
ProviderRows ==
    {name @@ status @@ comment @@ team :
        name \in {<<>>} \cup {("playerName" :> n) : n \in NameTexts}
                        \cup {("name" :> n) : n \in {<<65, 108>>}},
        status \in {<<>>} \cup {("status" :> x) : x \in StatusTexts}
                          \cup {("designation" :> x) : x \in {<<79, 117, 116>>}},
        comment \in {<<>>} \cup {("description" :> x) : x \in CommentTexts},
        team \in {<<>>} \cup {("teamAbbrev" :> x) : x \in TeamTexts}}

Payloads == UNION {[1..n -> ProviderRows] : n \in 0..MaxRows}

InitInjury ==
    /\ now = 0
    /\ disk = None
    /\ injury_cache = <<>>
    /\ cache = <<>>
    /\ rows = {}
    /\ cards = {}
    /\ legacy = {}
    /\ shadow = NoShadow
    /\ nops = 0
    /\ ret = [op |-> "init"]
    /\ tasks = <<>>
    /\ \E payload \in Payloads : arg = [payload |-> payload]

ExtractInjuries ==
    /\ ret.op = "init"
    /\ ret' = [op |-> "_extract_injuries", payload |-> arg.payload,
               injuries |-> _extract_injuries(arg.payload, "nba-cdn", None)]
    /\ UNCHANGED <<now, cache, rows, cards, legacy, shadow, nops, tasks, arg, disk, injury_cache>>

NextInjury == ExtractInjuries

SpecInjury == InitInjury /\ [][NextInjury]_vars

\* the statuses an InjuryRecord may carry
NormalizedStatuses == {OUT, DOUBTFUL, QUESTIONABLE, PROBABLE, GTD}

\* the name, status and comment text of a provider row, trimmed
RawName(row) == strip(first_of(row, <<"playerName", "name", "player", "player_name">>))

RawStatus(row) ==
    upper(strip(first_of(row, <<"status", "injuryStatus", "designation", "player_status">>)))

RawComment(row) == upper(strip(first_of(row, <<"description", "notes", "comment">>)))

StatusWords == {OUT, <<68, 79, 85, 66, 84>>, <<81, 85, 69, 83, 84, 73, 79, 78>>, <<80, 82, 79, 66>>}

\* the row names a player and says something about a status: it has status text,
\* or a comment that mentions one
Resolvable(row) ==
    /\ RawName(row) # <<>>
    /\ ~startswith(upper(RawName(row)), <<73, 78, 74, 85, 82, 89, 95, 83, 84, 65, 84, 85, 83, 95>>)
    /\ \/ RawStatus(row) # <<>>
       \/ \E w \in StatusWords : contains(RawComment(row), w)

\* the rows of the last payload that are not dropped, in order
Kept == SelectSeq(ret.payload, LAMBDA row : Resolvable(row))

\* a status text no entry of the table and no substring rule applies to
Unmapped(text) ==
    /\ text \notin DOMAIN _STATUS_NORMALIZATION
    /\ ~(contains(text, <<71, 65, 77, 69>>) /\ contains(text, <<68, 69, 67, 73, 83, 73, 79, 78>>))
    /\ \A w \in StatusWords : ~contains(text, w)

GAME_TIME_DECISION == <<71, 65, 77, 69, 32, 84, 73, 77, 69, 32, 68, 69, 67, 73, 83, 73, 79, 78>>

\* C18 as the specification states it: every record the normalizer emits
\* carries a status in {OUT, DOUBTFUL, QUESTIONABLE, PROBABLE, GTD}; a row with
\* status text "Game Time Decision" yields exactly GTD; a row whose player name
\* or status cannot be resolved is dropped.
C18_Stated ==
    ret.op = "_extract_injuries" =>
        /\ Len(ret.injuries) = Len(Kept)
        /\ \A i \in 1..Len(ret.injuries) :
              /\ ret.injuries[i].player_name = RawName(Kept[i])
              /\ ret.injuries[i].status \in NormalizedStatuses
              /\ RawStatus(Kept[i]) = GAME_TIME_DECISION => ret.injuries[i].status = GTD

\* C18 as the code has it: the status is one of the five when the table or a
\* substring rule applies (or the comment supplies it); any other status text is
\* passed through trimmed and upper-cased
C18_StatusNormalizedOrPassedThrough ==
    ret.op = "_extract_injuries" =>
        /\ Len(ret.injuries) = Len(Kept)
        /\ \A i \in 1..Len(ret.injuries) :
              /\ ret.injuries[i].player_name = RawName(Kept[i])
              /\ RawStatus(Kept[i]) = GAME_TIME_DECISION => ret.injuries[i].status = GTD
              /\ IF RawStatus(Kept[i]) # <<>> /\ Unmapped(RawStatus(Kept[i]))
                 THEN ret.injuries[i].status = RawStatus(Kept[i])
                 ELSE ret.injuries[i].status \in NormalizedStatuses

\* a row with status text "Game Time Decision" came out as GTD
C18_Witness ==
    /\ ret.op = "_extract_injuries"
    /\ Len(ret.payload) = 1
    /\ first_of(ret.payload[1], <<"status">>) = <<71, 97, 109, 101, 32, 84, 105, 109, 101, 32, 68, 101, 99, 105, 115, 105, 111, 110>>
    /\ Len(ret.injuries) = 1
    /\ ret.injuries[1].status = GTD
    /\ ret.injuries[1].team = BOS

(***************************************************************************)
(* Game lines (services/odds_api_service.py, services/sports_mcp_service.py *)
(* and MatchupService.get_game_lines).  A number is the record             *)
(* [float |-> n]; a provider value that is no number is None or a text.    *)
(***************************************************************************)
MaxGames == 2

MaxEvents == 2

MaxLineCalls == 2

Num(n) == [float |-> n]

\* a JSON list, as opposed to a value that is not a list (None)
List(items) == [list |-> items]

\* TEAM_NAME_BY_ABBR, for the teams of the model's league
TEAM_NAME_BY_ABBR ==
    (BOS :> <<66, 111, 115, 116, 111, 110, 32, 67, 101, 108, 116, 105, 99, 115>> @@ CHI :> <<67, 104, 105, 99, 97, 103, 111, 32, 66, 117, 108, 108, 115>>
     @@ NYK :> <<78, 101, 119, 32, 89, 111, 114, 107, 32, 75, 110, 105, 99, 107, 115>> @@ PHI :> <<80, 104, 105, 108, 97, 100, 101, 108, 112, 104, 105, 97, 32, 55, 54, 101, 114, 115>>)

\* TEAM_ABBR_ALIASES, for the teams of the model's league
TEAM_ABBR_ALIASES ==
    (BOS :> <<<<98, 111, 115, 116, 111, 110, 32, 99, 101, 108, 116, 105, 99, 115>>, <<99, 101, 108, 116, 105, 99, 115>>, <<98, 111, 115, 116, 111, 110>>>>
     @@ CHI :> <<<<99, 104, 105, 99, 97, 103, 111, 32, 98, 117, 108, 108, 115>>, <<98, 117, 108, 108, 115>>, <<99, 104, 105, 99, 97, 103, 111>>>>
     @@ NYK :> <<<<110, 101, 119, 32, 121, 111, 114, 107, 32, 107, 110, 105, 99, 107, 115>>, <<107, 110, 105, 99, 107, 115>>, <<110, 101, 119, 32, 121, 111, 114, 107>>>>
     @@ PHI :> <<<<112, 104, 105, 108, 97, 100, 101, 108, 112, 104, 105, 97, 32, 55, 54, 101, 114, 115>>, <<55, 54, 101, 114, 115>>, <<115, 105, 120, 101, 114, 115>>, <<112, 104, 105, 108, 97, 100, 101, 108, 112, 104, 105, 97>>>>)

\* models.GameLine
GameLine(game, away_spread, home_spread, game_total, source) ==
    [game_id |-> game.game_id, away_team |-> game.away_team, home_team |-> game.home_team,
     away_spread |-> away_spread, home_spread |-> home_spread, game_total |-> game_total,
     source |-> source]

NoLines == [away_spread |-> None, home_spread |-> None, game_total |-> None]

\* [GameLine(..., source=source) for game in games]
lines_without_odds(games, source) ==
    [i \in 1..Len(games) |-> GameLine(games[i], None, None, None, source)]

\* _to_float: the number a value stands for, None for anything else
_to_float(value) ==
    IF value = None THEN None
    ELSE IF "float" \in DOMAIN value THEN value
    ELSE None

\* by_matchup.get((away_name, home_name)): the last event stored under the pair
by_matchup(events, away_name, home_name) ==
    LET hits == {i \in 1..Len(events) :
                    /\ lower(strip(events[i].away_team)) = away_name
                    /\ lower(strip(events[i].home_team)) = home_name}
    IN  IF hits = {} THEN None
        ELSE events[CHOOSE i \in hits : \A j \in hits : j <= i]

\* the loop over the outcomes of a spreads market
RECURSIVE odds_spreads(_, _, _, _)
odds_spreads(outcomes, away_name, home_name, acc) ==
    IF outcomes = <<>> THEN acc
    ELSE LET point == _to_float(Head(outcomes).point)
             name == lower(strip(Head(outcomes).name))
             nxt == IF point = None THEN acc
                    ELSE IF name = away_name THEN [acc EXCEPT !.away_spread = point]
                    ELSE IF name = home_name THEN [acc EXCEPT !.home_spread = point]
                    ELSE acc
         IN  odds_spreads(Tail(outcomes), away_name, home_name, nxt)

\* the loop over the outcomes of a totals market: the first point that is a number
odds_total(outcomes) ==
    LET hits == {i \in 1..Len(outcomes) : _to_float(outcomes[i].point) # None}
    IN  IF hits = {} THEN None
        ELSE _to_float(outcomes[CHOOSE i \in hits : \A j \in hits : i <= j].point)

\* the loop over the markets of a bookmaker
RECURSIVE odds_markets(_, _, _, _)
odds_markets(markets, away_name, home_name, acc) ==
    IF markets = <<>> THEN acc
    ELSE LET market == Head(markets)
             key == lower(strip(market.key))
             a1 == IF key = <<115, 112, 114, 101, 97, 100, 115>> /\ (acc.away_spread = None \/ acc.home_spread = None)
                   THEN odds_spreads(market.outcomes, away_name, home_name, acc)
                   ELSE acc
             a2 == IF key = <<116, 111, 116, 97, 108, 115>> /\ a1.game_total = None
                   THEN [a1 EXCEPT !.game_total = odds_total(market.outcomes)]
                   ELSE a1
         IN  odds_markets(Tail(markets), away_name, home_name, a2)

\* the loop over the bookmakers, left as soon as the three lines are known
RECURSIVE odds_bookmakers(_, _, _, _)
odds_bookmakers(bookmakers, away_name, home_name, acc) ==
    IF bookmakers = <<>> THEN acc
    ELSE LET a1 == odds_markets(Head(bookmakers).markets, away_name, home_name, acc)
         IN  IF a1.away_spread # None /\ a1.home_spread # None /\ a1.game_total # None
             THEN a1
             ELSE odds_bookmakers(Tail(bookmakers), away_name, home_name, a1)

\* OddsAPIService._extract_market_lines
odds_extract_market_lines(event) ==
    IF event.bookmakers = None THEN NoLines
    ELSE odds_bookmakers(event.bookmakers.list, lower(strip(event.away_team)),
                         lower(strip(event.home_team)), NoLines)

\* the line of one game in OddsAPIService.fetch_game_lines
odds_line(game, events) ==
    LET away_name == lower(DictGet(TEAM_NAME_BY_ABBR, game.away_team, game.away_team))
        home_name == lower(DictGet(TEAM_NAME_BY_ABBR, game.home_team, game.home_team))
        event == by_matchup(events, away_name, home_name)
        found == odds_extract_market_lines(event)
    IN  IF event = None THEN GameLine(game, None, None, None, "odds-api-no-match")
        ELSE GameLine(game, found.away_spread, found.home_spread, found.game_total, "odds-api")

odds_fetch_omitting_unmatched(games, odds) ==
    [raised |-> FALSE,
     lines |-> SelectSeq([i \in 1..Len(games) |-> odds_line(games[i], odds.events)],
                         LAMBDA line : line.source = "odds-api")]

\* OddsAPIService.fetch_game_lines: the lines, or the error of the request
odds_fetch_game_lines(games, odds) ==
    IF ~odds.configured
    THEN [raised |-> FALSE, lines |-> lines_without_odds(games, "odds-api-unconfigured")]
    ELSE IF odds.raises THEN [raised |-> TRUE, lines |-> <<>>]
    ELSE [raised |-> FALSE,
          lines |-> [i \in 1..Len(games) |-> odds_line(games[i], odds.events)]]

\* " | ".join(strings)
RECURSIVE join(_, _)
join(strings, sep) ==
    IF strings = <<>> THEN <<>>
    ELSE IF Len(strings) = 1 THEN Head(strings)
    ELSE Head(strings) \o sep \o join(Tail(strings), sep)

\* _collect_strings on a leaf: a text is collected trimmed unless it is blank
strings_of_text(text) == IF strip(text) = <<>> THEN <<>> ELSE <<strip(text)>>

\* _collect_strings on a value that may be a number, a text or None
strings_of_value(value) ==
    IF value # None /\ "text" \in DOMAIN value THEN strings_of_text(value.text) ELSE <<>>

RECURSIVE strings_of_selections(_)
strings_of_selections(selections) ==
    IF selections = <<>> THEN <<>>
    ELSE strings_of_text(Head(selections).name) \o strings_of_value(Head(selections).line)
         \o strings_of_selections(Tail(selections))

RECURSIVE strings_of_markets(_)
strings_of_markets(markets) ==
    IF markets = <<>> THEN <<>>
    ELSE strings_of_text(Head(markets).key) \o strings_of_value(Head(markets).line)
         \o strings_of_selections(Head(markets).selections)
         \o strings_of_markets(Tail(markets))

\* SportsMCPService._collect_strings, over the keys of an event in their order
_collect_strings(event) ==
    strings_of_text(event.name)
    \o (IF event.markets = None THEN <<>> ELSE strings_of_markets(event.markets.list))

\* SportsMCPService._event_haystack
_event_haystack(event) == lower(join(_collect_strings(event), <<32, 124, 32>>))

\* the aliases _match_event looks for: the lower-cased code, then the table's
aliases_of(team) ==
    {lower(team)} \cup Range(DictGet(TEAM_ABBR_ALIASES, team, <<lower(team)>>))

\* SportsMCPService._match_event: the first event that mentions both teams
_match_event(game, events) ==
    LET hits == {i \in 1..Len(events) :
                    /\ \E alias \in aliases_of(game.away_team) :
                          contains(_event_haystack(events[i]), alias)
                    /\ \E alias \in aliases_of(game.home_team) :
                          contains(_event_haystack(events[i]), alias)}
    IN  IF hits = {} THEN None
        ELSE events[CHOOSE i \in hits : \A j \in hits : i <= j]

\* the numbers _extract_spreads collects, one per selection that has one
RECURSIVE numeric_lines(_)
numeric_lines(selections) ==
    IF selections = <<>> THEN <<>>
    ELSE (IF _to_float(Head(selections).line) = None THEN <<>>
          ELSE <<_to_float(Head(selections).line)>>)
         \o numeric_lines(Tail(selections))

\* SportsMCPService._extract_spreads
_extract_spreads(selections) ==
    LET lines == numeric_lines(selections)
    IN  IF lines = <<>> THEN <<None, None>>
        ELSE IF Len(lines) = 1 THEN <<lines[1], Num(0 - lines[1].float)>>
        ELSE <<lines[1], lines[2]>>

\* SportsMCPService._extract_total
_extract_total(market, selections) ==
    IF _to_float(market.line) # None THEN _to_float(market.line)
    ELSE LET lines == numeric_lines(selections)
         IN  IF lines = <<>> THEN None ELSE lines[1]

\* the loop over the markets of an event
RECURSIVE mcp_markets(_, _)
mcp_markets(markets, acc) ==
    IF markets = <<>> THEN acc
    ELSE LET market == Head(markets)
             market_key == lower(market.key) \o <<32, 32, 32>>
             spreads == _extract_spreads(market.selections)
             a1 == IF /\ contains(market_key, <<104, 97, 110, 100, 105, 99, 97, 112>>) \/ contains(market_key, <<115, 112, 114, 101, 97, 100>>)
                      /\ acc.away_spread = None \/ acc.home_spread = None
                   THEN [acc EXCEPT !.away_spread = spreads[1], !.home_spread = spreads[2]]
                   ELSE acc
             a2 == IF /\ \/ contains(market_key, <<116, 111, 116, 97, 108, 115>>)
                         \/ contains(market_key, <<116, 111, 116, 97, 108>>)
                         \/ contains(market_key, <<111, 118, 101, 114, 47, 117, 110, 100, 101, 114>>)
                      /\ a1.game_total = None
                   THEN [a1 EXCEPT !.game_total = _extract_total(market, market.selections)]
                   ELSE a1
         IN  mcp_markets(Tail(markets), a2)

\* SportsMCPService._extract_market_lines
mcp_extract_market_lines(event) ==
    IF event.markets = None THEN NoLines ELSE mcp_markets(event.markets.list, NoLines)

\* SportsMCPService._line_from_event
_line_from_event(game, events) ==
    LET event == _match_event(game, events)
        found == mcp_extract_market_lines(event)
    IN  IF event = None THEN GameLine(game, None, None, None, "mcp-no-match")
        ELSE GameLine(game, found.away_spread, found.home_spread, found.game_total, "mcp")

\* SportsMCPService.fetch_game_lines: the lines, or the error of the request;
\* lines_by_game_id holds, under an id, the line of the last game with that id
mcp_fetch_game_lines(games, mcp) ==
    IF ~mcp.configured \/ games = <<>>
    THEN [raised |-> FALSE, lines |-> lines_without_odds(games, "mcp-unconfigured")]
    ELSE IF mcp.raises THEN [raised |-> TRUE, lines |-> <<>>]
    ELSE IF mcp.events = <<>>
    THEN [raised |-> FALSE, lines |-> lines_without_odds(games, "mcp-no-events")]
    ELSE LET last_with(game_id) ==
                 CHOOSE i \in 1..Len(games) :
                     /\ games[i].game_id = game_id
                     /\ \A j \in 1..Len(games) : games[j].game_id = game_id => j <= i
         IN  [raised |-> FALSE,
              lines |-> [i \in 1..Len(games) |->
                            _line_from_event(games[last_with(games[i].game_id)], mcp.events)]]

\* any(line.away_spread is not None or ... for line in lines)
has_live_lines(lines) ==
    \E i \in 1..Len(lines) :
        \/ lines[i].away_spread # None
        \/ lines[i].home_spread # None
        \/ lines[i].game_total # None

\* MatchupService.get_game_lines at time t, the schedule read being games: the
\* response (or the error) and the cache afterwards
get_game_lines(c, slate_date, games, odds, mcp, t) ==
    LET cache_key == <<"game-lines", isoformat(slate_date)>>
        cached == cache_get(c, cache_key, t)
        first == odds_fetch_game_lines(games, odds)
        second == IF first.raised \/ has_live_lines(first.lines) THEN first
                  ELSE mcp_fetch_game_lines(games, mcp)
        response == [slate_date |-> slate_date, lines |-> second.lines]
    IN  IF cached.value # None
        THEN [raised |-> FALSE, cached |-> TRUE, response |-> cached.value,
              cache |-> cached.cache]
        ELSE IF second.raised
        THEN [raised |-> TRUE, cached |-> FALSE, response |-> None, cache |-> cached.cache]
        ELSE [raised |-> FALSE, cached |-> FALSE, response |-> response,
              cache |-> cache_set(cached.cache, cache_key, response, t)]

\* the games a schedule read may return
GameChoices == {Game("001", CHI, BOS), Game("002", NYK, PHI), Game("003", BOS, CHI)}

GameLists ==
    UNION {{s \in [1..n -> GameChoices] : \A i, j \in 1..n : s[i] = s[j] => i = j} :
              n \in 0..MaxGames}

\* values a provider sends where a number is expected
PK == [text |-> <<80, 75>>]

\* events of the odds API
OddsEventChoices ==
    {[away_team |-> <<67, 104, 105, 99, 97, 103, 111, 32, 66, 117, 108, 108, 115>>, home_team |-> <<66, 111, 115, 116, 111, 110, 32, 67, 101, 108, 116, 105, 99, 115>>,
      bookmakers |-> List(<<[markets |->
          <<[key |-> <<115, 112, 114, 101, 97, 100, 115>>,
             outcomes |-> <<[name |-> <<67, 104, 105, 99, 97, 103, 111, 32, 66, 117, 108, 108, 115>>, point |-> Num(3)],
                            [name |-> <<66, 111, 115, 116, 111, 110, 32, 67, 101, 108, 116, 105, 99, 115>>, point |-> Num(-3)]>>],
            [key |-> <<116, 111, 116, 97, 108, 115>>,
             outcomes |-> <<[name |-> <<79, 118, 101, 114>>, point |-> Num(220)],
                            [name |-> <<85, 110, 100, 101, 114>>, point |-> Num(220)]>>]>>]>>)],
     [away_team |-> <<32, 99, 104, 105, 99, 97, 103, 111, 32, 98, 117, 108, 108, 115, 32>>, home_team |-> <<66, 79, 83, 84, 79, 78, 32, 67, 69, 76, 84, 73, 67, 83>>,
      bookmakers |-> None],
     [away_team |-> <<78, 101, 119, 32, 89, 111, 114, 107, 32, 75, 110, 105, 99, 107, 115>>, home_team |-> <<80, 104, 105, 108, 97, 100, 101, 108, 112, 104, 105, 97, 32, 55, 54, 101, 114, 115>>,
      bookmakers |-> List(<<[markets |->
          <<[key |-> <<115, 112, 114, 101, 97, 100, 115>>,
             outcomes |-> <<[name |-> <<78, 101, 119, 32, 89, 111, 114, 107, 32, 75, 110, 105, 99, 107, 115>>, point |-> PK],
                            [name |-> <<80, 104, 105, 108, 97, 100, 101, 108, 112, 104, 105, 97, 32, 55, 54, 101, 114, 115>>, point |-> Num(-2)]>>]>>]>>)]}

\* events of the MCP server
McpEventChoices ==
    {[name |-> <<67, 104, 105, 99, 97, 103, 111, 32, 66, 117, 108, 108, 115, 32, 64, 32, 66, 111, 115, 116, 111, 110, 32, 67, 101, 108, 116, 105, 99, 115>>,
      markets |-> List(<<[key |-> <<80, 111, 105, 110, 116, 32, 83, 112, 114, 101, 97, 100>>, line |-> None,
                     selections |-> <<[name |-> <<66, 117, 108, 108, 115>>, line |-> Num(3)],
                                      [name |-> <<67, 101, 108, 116, 105, 99, 115>>, line |-> Num(-3)]>>],
                    [key |-> <<84, 111, 116, 97, 108, 32, 80, 111, 105, 110, 116, 115>>, line |-> Num(220), selections |-> <<>>]>>)],
     [name |-> <<75, 110, 105, 99, 107, 115, 32, 118, 115, 32, 83, 105, 120, 101, 114, 115>>, markets |-> None],
     [name |-> <<76, 97, 107, 101, 114, 115, 32, 97, 116, 32, 87, 97, 114, 114, 105, 111, 114, 115>>,
      markets |-> List(<<[key |-> <<72, 97, 110, 100, 105, 99, 97, 112>>, line |-> PK,
                     selections |-> <<[name |-> <<76, 97, 107, 101, 114, 115>>, line |-> Num(5)]>>]>>)]}

EventLists(choices) == UNION {[1..n -> choices] : n \in 0..MaxEvents}

\* the line providers as a request meets them
OddsProviders ==
    {[configured |-> FALSE, raises |-> FALSE, events |-> <<>>],
     [configured |-> TRUE, raises |-> TRUE, events |-> <<>>]}
    \cup {[configured |-> TRUE, raises |-> FALSE, events |-> e] :
             e \in EventLists(OddsEventChoices)}

McpProviders ==
    {[configured |-> FALSE, raises |-> FALSE, events |-> <<>>],
     [configured |-> TRUE, raises |-> TRUE, events |-> <<>>]}
    \cup {[configured |-> TRUE, raises |-> FALSE, events |-> e] :
             e \in EventLists(McpEventChoices)}

InitLines ==
    /\ now = 0
    /\ disk = None
    /\ injury_cache = <<>>
    /\ cache = <<>>
    /\ rows = {}
    /\ cards = {}
    /\ legacy = {}
    /\ shadow = NoShadow
    /\ nops = 0
    /\ ret = [op |-> "init"]
    /\ tasks = <<>>
    /\ \E games \in GameLists : \E odds \in OddsProviders : \E mcp \in McpProviders :
          arg = [games |-> games, odds |-> odds, mcp |-> mcp]

GetGameLines ==
    /\ nops < MaxLineCalls
    /\ \E r \in {get_game_lines(cache, Today, arg.games, arg.odds, arg.mcp, now)} :
          /\ cache' = r.cache
          /\ ret' = [op |-> "get_game_lines", raised |-> r.raised, cached |-> r.cached,
                     games |-> arg.games,
                     lines |-> IF r.raised THEN <<>> ELSE r.response.lines]
    /\ nops' = nops + 1
    /\ UNCHANGED <<now, rows, cards, legacy, shadow, tasks, arg, disk, injury_cache>>

NextLines == GetGameLines

SpecLines == InitLines /\ [][NextLines]_vars

SentinelSources ==
    {"odds-api-unconfigured", "odds-api-no-match", "mcp-unconfigured", "mcp-no-events",
     "mcp-no-match"}

\* the odds API has an event for the game: one whose team names are the
\* game's, whatever their case and the blanks around them
OddsEventFor(game) ==
    /\ arg.odds.configured
    /\ \E i \in 1..Len(arg.odds.events) :
          /\ upper(strip(arg.odds.events[i].away_team)) = upper(TEAM_NAME_BY_ABBR[game.away_team])
          /\ upper(strip(arg.odds.events[i].home_team)) = upper(TEAM_NAME_BY_ABBR[game.home_team])

\* the MCP server has an event for the game: one that mentions both teams
McpEventFor(game) ==
    /\ arg.mcp.configured
    /\ \E i \in 1..Len(arg.mcp.events) : \A team \in {game.away_team, game.home_team} :
          \E alias \in aliases_of(team) : contains(_event_haystack(arg.mcp.events[i]), alias)

\* C19: the line list get_game_lines returns has exactly one record per game
\* of the schedule, in the order of the games and carrying the game's id and
\* teams; a game for which the answering provider has no event is not omitted:
\* its record has a sentinel source and null away spread, home spread and total.
C19_OneLinePerGame ==
    (ret.op = "get_game_lines" /\ ~ret.raised) =>
        /\ Len(ret.lines) = Len(ret.games)
        /\ \A i \in 1..Len(ret.lines) :
              /\ ret.lines[i].game_id = ret.games[i].game_id
              /\ ret.lines[i].away_team = ret.games[i].away_team
              /\ ret.lines[i].home_team = ret.games[i].home_team
              /\ ret.lines[i].source \in SentinelSources \cup {"odds-api", "mcp"}
              /\ ret.lines[i].source = "odds-api" => OddsEventFor(ret.games[i])
              /\ ret.lines[i].source = "mcp" => McpEventFor(ret.games[i])
              /\ ret.lines[i].source \in SentinelSources =>
                    /\ ret.lines[i].away_spread = None
                    /\ ret.lines[i].home_spread = None
                    /\ ret.lines[i].game_total = None

\* two games were asked for, the odds API had an event for the second only, and
\* the answer lists the first with the sentinel source and the second with its
\* spreads
C19_Witness ==
    /\ ret.op = "get_game_lines"
    /\ ~ret.raised
    /\ Len(ret.games) = 2
    /\ Len(ret.lines) = 2
    /\ ~OddsEventFor(ret.games[1])
    /\ ret.lines[1].source = "odds-api-no-match"
    /\ ret.lines[1].game_id = ret.games[1].game_id
    /\ ret.lines[2].source = "odds-api"
    /\ ret.lines[2].away_spread = Num(3)
    /\ ret.lines[2].home_spread = Num(-3)

(***************************************************************************)
(* Schedule de-duplication (NBADataService._dedupe_games_by_matchup).  A   *)
(* game id is a text here, as the ids are compared; a start time is None   *)
(* or the record [text |-> its text].                                      *)
(***************************************************************************)
MaxDupes == 3

\* game.start_time_utc or ""
start_or_empty(game) == IF game.start_time_utc = None THEN <<>> ELSE game.start_time_utc.text

\* the truth value of game.start_time_utc
has_start_time(game) == start_or_empty(game) # <<>>

keep_first_seen(existing, game) == FALSE

\* the condition under which a later row takes the place of the one kept
replaces_existing(existing, game) ==
    \/ ~has_start_time(existing) /\ has_start_time(game)
    \/ TextLT(game.game_id, existing.game_id)

\* the loop of _dedupe_games_by_matchup: deduped after the rows of games
RECURSIVE deduped_after(_, _)
deduped_after(games, deduped) ==
    IF games = <<>> THEN deduped
    ELSE LET game == Head(games)
             key == <<game.away_team, game.home_team>>
         IN  IF key \notin DOMAIN deduped
             THEN deduped_after(Tail(games), [k \in DOMAIN deduped \cup {key} |->
                                                 IF k = key THEN game ELSE deduped[k]])
             ELSE IF replaces_existing(deduped[key], game)
             THEN deduped_after(Tail(games), [deduped EXCEPT ![key] = game])
             ELSE deduped_after(Tail(games), deduped)

\* the sort key (start time or "", away team, home team, game id)
game_sort_key(game) == <<start_or_empty(game), game.away_team, game.home_team, game.game_id>>

\* tuple comparison of two sort keys
game_key_lt(a, b) ==
    \E i \in 1..4 : /\ \A j \in 1..(i - 1) : a[j] = b[j]
                    /\ TextLT(a[i], b[i])

\* sorted(deduped.values(), key=...): the keys differ in the team pair, so the
\* order of the values does not matter
RECURSIVE sorted_games(_)
sorted_games(games) ==
    IF games = {} THEN <<>>
    ELSE LET first == CHOOSE g \in games :
                          \A h \in games \ {g} : game_key_lt(game_sort_key(g), game_sort_key(h))
         IN  <<first>> \o sorted_games(games \ {first})

\* NBADataService._dedupe_games_by_matchup
_dedupe_games_by_matchup(games) ==
    IF games = <<>> THEN <<>>
    ELSE LET deduped == deduped_after(games, <<>>)
         IN  sorted_games({deduped[k] : k \in DOMAIN deduped})

\* scoreboard rows: two ids, two pairs of teams, a start time known or not
StartTimes == {None, [text |-> <<50, 48, 50, 54, 45, 48, 50, 45, 49, 49, 84, 49, 57, 58, 48, 48, 58, 48, 48>>], [text |-> <<50, 48, 50, 54, 45, 48, 50, 45, 49, 49, 84, 50, 48, 58, 51, 48, 58, 48, 48>>]}

ScoreboardGames ==
    {[game_id |-> id, start_time_utc |-> start, away_team |-> pair[1], home_team |-> pair[2]] :
        id \in {<<48, 48, 49>>, <<48, 48, 50>>}, start \in StartTimes, pair \in {<<CHI, BOS>>, <<NYK, PHI>>}}

InitDedupe ==
    /\ now = 0
    /\ disk = None
    /\ injury_cache = <<>>
    /\ cache = <<>>
    /\ rows = {}
    /\ cards = {}
    /\ legacy = {}
    /\ shadow = NoShadow
    /\ nops = 0
    /\ ret = [op |-> "init"]
    /\ tasks = <<>>
    /\ \E n \in 0..MaxDupes : \E games \in [1..n -> ScoreboardGames] : arg = [games |-> games]

DedupeGames ==
    /\ ret.op = "init"
    /\ ret' = [op |-> "_dedupe_games_by_matchup", games |-> arg.games,
               deduped |-> _dedupe_games_by_matchup(arg.games)]
    /\ UNCHANGED <<now, cache, rows, cards, legacy, shadow, nops, tasks, arg, disk, injury_cache>>

NextDedupe == DedupeGames

SpecDedupe == InitDedupe /\ [][NextDedupe]_vars

\* the rows of the input that play the given pair of teams
Duplicates(pair) ==
    {g \in Range(ret.games) : <<g.away_team, g.home_team>> = pair}

PairsPlayed == {<<g.away_team, g.home_team>> : g \in Range(ret.games)}

\* the duplicates the specification prefers: those with a known start time when
\* there is one, and among them those of the lowest game id
Preferred(pair) ==
    LET timed == {g \in Duplicates(pair) : g.start_time_utc # None}
        pool == IF timed = {} THEN Duplicates(pair) ELSE timed
    IN  {g \in pool : \A h \in pool : TextLE(g.game_id, h.game_id)}

\* the start time (empty when unknown) and the team codes of a game, and their
\* order
StartThenTeams(g) == <<start_or_empty(g), g.away_team, g.home_team>>

Before(a, b) ==
    \E i \in 1..3 : /\ \A j \in 1..(i - 1) : a[j] = b[j]
                    /\ TextLT(a[i], b[i])

\* exactly one game of the input per pair of teams, sorted by start time (the
\* rows without one first), then team codes
OnePerPairSorted ==
    /\ Len(ret.deduped) = Cardinality(PairsPlayed)
    /\ \A i \in 1..Len(ret.deduped) : ret.deduped[i] \in Range(ret.games)
    /\ \A i, j \in 1..Len(ret.deduped) :
          i < j => Before(StartThenTeams(ret.deduped[i]), StartThenTeams(ret.deduped[j]))

\* C20 as the specification states it: one game is kept per (away, home) pair,
\* the one with a known start time before one without, the lowest game id among
\* equals, whatever the order the duplicates arrive in; the result is sorted by
\* start time, then team codes.
C20_Stated ==
    ret.op = "_dedupe_games_by_matchup" =>
        /\ OnePerPairSorted
        /\ \A i \in 1..Len(ret.deduped) :
              ret.deduped[i] \in Preferred(<<ret.deduped[i].away_team, ret.deduped[i].home_team>>)

\* C20 as the code has it: one game is kept per (away, home) pair and the result
\* is sorted by start time, then team codes; the kept row is the preferred one
\* whenever the duplicates of its pair all carry a start time or all lack one,
\* or the preferred row also has the lowest game id of them all
C20_KeptWhenStartTimesAgree ==
    ret.op = "_dedupe_games_by_matchup" =>
        /\ OnePerPairSorted
        /\ \A i \in 1..Len(ret.deduped) :
              LET pair == <<ret.deduped[i].away_team, ret.deduped[i].home_team>>
              IN  (\/ \A g, h \in Duplicates(pair) :
                         (g.start_time_utc = None) = (h.start_time_utc = None)
                   \/ \E g \in Preferred(pair) : \A h \in Duplicates(pair) :
                         TextLE(g.game_id, h.game_id))
                  => ret.deduped[i] \in Preferred(pair)

\* three rows came in, the first two for the same pair with start times and the
\* lower id second; two games came out, the lower id kept
C20_Witness ==
    /\ ret.op = "_dedupe_games_by_matchup"
    /\ Len(ret.games) = 3
    /\ ret.games[1].away_team = ret.games[2].away_team
    /\ ret.games[1].start_time_utc # None
    /\ ret.games[2].start_time_utc # None
    /\ TextLT(ret.games[2].game_id, ret.games[1].game_id)
    /\ ret.games[3].away_team # ret.games[1].away_team
    /\ Len(ret.deduped) = 2
    /\ ret.games[2] \in Range(ret.deduped)
    /\ ret.games[1] \notin Range(ret.deduped)

(***************************************************************************)
(* InMemoryCache with a persist path: the pickle file next to the store.   *)
(* `cache` is the _store of the live instance, `disk` the file: None when  *)
(* it does not exist, File(store) when it holds a pickled store, Corrupt   *)
(* when it cannot be unpickled.                                            *)
(***************************************************************************)
MaxPersistOps == 4

File(store) == [store |-> store]

Corrupt == [corrupt |-> TRUE]

\* the entries of a store with expires_at > t
unexpired(store, t) ==
    [k \in {key \in DOMAIN store : store[key].expires_at > t} |-> store[k]]

\* InMemoryCache._load_persisted at time t: the _store of the new instance
_load_persisted(file, t) ==
    IF file = None THEN <<>>
    ELSE IF file = Corrupt THEN <<>>
    ELSE unexpired(file.store, t)

\* the ways a write of the file ends: written; mkdir or open raised and the file
\* is as it was; pickle.dump raised after open("wb") truncated the file
WriteOutcomes == {"ok", "unchanged", "truncated"}

persist_skipped(store, file, outcome) == file

\* InMemoryCache._persist: the file afterwards
_persist(store, file, outcome) ==
    IF outcome = "ok" THEN File(store)
    ELSE IF outcome = "truncated" THEN Corrupt
    ELSE file

\* InMemoryCache.get with a persist path
persistent_get(c, file, key, t, outcome) ==
    LET r == cache_get(c, key, t)
        expired == key \in DOMAIN c /\ t >= c[key].expires_at
    IN  [value |-> r.value, cache |-> r.cache,
         file |-> IF expired THEN _persist(r.cache, file, outcome) ELSE file,
         write |-> IF expired THEN outcome ELSE "none"]

\* InMemoryCache.set with a persist path
persistent_set(c, file, key, value, t, outcome) ==
    LET store == cache_set(c, key, value, t)
    IN  [cache |-> store, file |-> _persist(store, file, outcome), write |-> outcome]

\* InMemoryCache.invalidate_prefix with a persist path
persistent_invalidate_prefix(c, file, prefix, outcome) ==
    LET r == invalidate_prefix(c, prefix)
    IN  [count |-> r.count, cache |-> r.cache,
         file |-> IF r.count > 0 THEN _persist(r.cache, file, outcome) ELSE file,
         write |-> IF r.count > 0 THEN outcome ELSE "none"]

PersistKeys == {matchups_key(Slate1, "season"), matchups_key(Slate1, "last10"), <<"alpha">>}

PersistPrefixes == {<<"matchups", isoformat(Slate1)>>, <<"alpha">>, <<"beta">>}

\* a new instance on the path observes what the live one holds unexpired
Mirrors == _load_persisted(disk, now) = unexpired(cache, now)

InitPersist ==
    /\ now = 0
    /\ disk = None
    /\ injury_cache = <<>>
    /\ cache = <<>>
    /\ rows = {}
    /\ cards = {}
    /\ legacy = {}
    /\ shadow = NoShadow
    /\ nops = 0
    /\ ret = [op |-> "init"]
    /\ tasks = <<>>
    /\ arg = None

PersistSet ==
    /\ nops < MaxPersistOps
    /\ \E key \in PersistKeys, value \in {"x"}, outcome \in WriteOutcomes :
          \E r \in {persistent_set(cache, disk, key, value, now, outcome)} :
              /\ cache' = r.cache
              /\ disk' = r.file
              /\ ret' = [op |-> "set", key |-> key, write |-> r.write, mirrored |-> Mirrors]
    /\ nops' = nops + 1
    /\ UNCHANGED <<now, rows, cards, legacy, shadow, tasks, arg, injury_cache>>

PersistGet ==
    /\ nops < MaxPersistOps
    /\ \E key \in PersistKeys, outcome \in WriteOutcomes :
          \E r \in {persistent_get(cache, disk, key, now, outcome)} :
              /\ outcome = "ok" \/ r.write # "none"
              /\ cache' = r.cache
              /\ disk' = r.file
              /\ ret' = [op |-> "get", key |-> key, value |-> r.value, write |-> r.write,
                         mirrored |-> Mirrors]
    /\ nops' = nops + 1
    /\ UNCHANGED <<now, rows, cards, legacy, shadow, tasks, arg, injury_cache>>

PersistInvalidate ==
    /\ nops < MaxPersistOps
    /\ \E prefix \in PersistPrefixes, outcome \in WriteOutcomes :
          \E r \in {persistent_invalidate_prefix(cache, disk, prefix, outcome)} :
              /\ outcome = "ok" \/ r.write # "none"
              /\ cache' = r.cache
              /\ disk' = r.file
              /\ ret' = [op |-> "invalidate_prefix", prefix |-> prefix, count |-> r.count,
                         before |-> cache, write |-> r.write, mirrored |-> Mirrors]
    /\ nops' = nops + 1
    /\ UNCHANGED <<now, rows, cards, legacy, shadow, tasks, arg, injury_cache>>

\* InMemoryCache(persist_path=...) : a new instance takes the place of the live one
Reopen ==
    /\ nops < MaxPersistOps
    /\ cache' = _load_persisted(disk, now)
    /\ ret' = [op |-> "open", previous |-> cache, at |-> now, mirrored |-> Mirrors,
               last |-> ret.op,
               removed |-> IF ret.op = "invalidate_prefix" THEN ret.count ELSE 0]
    /\ nops' = nops + 1
    /\ UNCHANGED <<now, disk, rows, cards, legacy, shadow, tasks, arg, injury_cache>>

NextPersist == Tick \/ PersistSet \/ PersistGet \/ PersistInvalidate \/ Reopen

SpecPersist == InitPersist /\ [][NextPersist]_vars

\* invalidate_prefix returned the number of keys it removed, and they are gone
CountsRemoved ==
    ret.op = "invalidate_prefix" =>
        LET removed == {k \in DOMAIN ret.before : startswith(k, ret.prefix)}
        IN  /\ ret.count = Cardinality(removed)
            /\ DOMAIN cache = DOMAIN ret.before \ removed

\* C21 as the specification states it: after every set and every
\* invalidate_prefix the file mirrors the store, so a new instance opened on the
\* path holds exactly the unexpired entries of the previous one; invalidate_prefix
\* returns the number of keys it removed.
C21_Stated ==
    /\ ret.op \in {"set", "invalidate_prefix"} => Mirrors
    /\ ret.op = "open" /\ ret.last \in {"set", "invalidate_prefix"} =>
          cache = unexpired(ret.previous, ret.at)
    /\ CountsRemoved

\* C21, amended: the file mirrors the store after a set or an invalidate_prefix
\* whose write of the file succeeded (or that had nothing to write to a file
\* that mirrored the store already), and a new instance opened then holds
\* exactly the unexpired entries of the previous one; invalidate_prefix returns
\* the number of keys it removed.
C21_MirrorsWhenWritten ==
    /\ (/\ ret.op \in {"set", "invalidate_prefix"}
        /\ ret.write = "ok" \/ (ret.write = "none" /\ ret.mirrored)) => Mirrors
    /\ ret.op = "open" =>
          /\ cache = _load_persisted(disk, ret.at)
          /\ ret.mirrored => cache = unexpired(ret.previous, ret.at)
    /\ CountsRemoved

\* two keys were set, one of them was removed by invalidate_prefix, and the new
\* instance opened on the path holds the other one only
C21_Witness ==
    /\ ret.op = "open"
    /\ ret.last = "invalidate_prefix"
    /\ ret.removed = 1
    /\ ret.mirrored
    /\ DOMAIN ret.previous = {<<"alpha">>}
    /\ DOMAIN cache = {<<"alpha">>}
    /\ disk = File(cache)

(***************************************************************************)
(* Concurrent get_matchups requests over a store that may hold rows of an  *)
(* earlier deployment (stale or corrupt).                                  *)
(***************************************************************************)
InitStale ==
    /\ now = 0
    /\ disk = None
    /\ injury_cache = <<>>
    /\ cache = <<>>
    /\ rows \in InitRows
    /\ cards = {}
    /\ legacy = {}
    /\ shadow = NoShadow
    /\ nops = 0
    /\ ret = [op |-> "init"]
    /\ tasks = [i \in Requests |-> Idle]
    /\ arg = None

SpecStale == InitStale /\ [][NextRace]_vars

\* the cache holds, under matchups:<Today>:<window>, a response whose as-of date
\* is older than the slate's
StaleCached(window) ==
    /\ matchups_key(Today, window) \in DOMAIN cache
    /\ DateLT(cache[matchups_key(Today, window)].value.as_of_date, MinusOneDay(Today))

\* C22 as the specification states it: a durable response whose as_of_date is
\* older than slate - 1 day is never written into the volatile cache under
\* matchups:<slate>:<window>, in any state during or after a get_matchups call.
C22_Stated == \A window \in Windows : ~StaleCached(window)

\* C22 as the code has it: the stale durable response is in the cache while a
\* request for that (slate, window) is suspended in its computation, and only
\* then; no request returns it
C22_StaleOnlyWhileComputing ==
    /\ \A window \in Windows :
          StaleCached(window) =>
              \E i \in Requests : tasks[i].pc = "injuries" /\ tasks[i].window = window
    /\ \A i \in Requests :
          tasks[i].pc = "done" => ~DateLT(tasks[i].result.as_of_date, MinusOneDay(Today))

\* a request found the stale row, promoted it and is now suspended in its
\* computation, the stale response sitting in the cache
C22_Witness ==
    /\ StaleCached("season")
    /\ tasks[1].pc = "injuries"
    /\ tasks[1].window = "season"
    /\ tasks[2].pc = "idle"
    /\ store_get(rows, Today, "season") = cache[matchups_key(Today, "season")].value

(***************************************************************************)
(* InjuryService.fetch_injuries.  A call is suspended at the request to    *)
(* each provider; `tasks` holds the frame of the call in flight and        *)
(* `injury_cache` the results kept for _ttl_seconds.  Time is in ticks.    *)
(***************************************************************************)
MaxFetches == 2

\* InjuryService._ttl_seconds, in ticks
InjuryTtl == 1

\* InjuryService._provider_urls: the sources in priority order; the odds API and
\* the fallback provider are listed when their environment variables are set
_provider_urls(odds_key, fallback_url) ==
    <<"espn", "nba-cdn", "nba-cdn">>
    \o (IF odds_key THEN <<"odds-api">> ELSE <<>>)
    \o (IF fallback_url THEN <<"injury-fallback">> ELSE <<>>)

fetch_ignoring_status(source, answer) ==
    IF answer.kind = "raises" THEN <<>>
    ELSE _extract_injuries(answer.payload, source, None)

\* InjuryService._fetch_provider_injuries: the records of the answer, [] when
\* the request raises or the status is not 200
_fetch_provider_injuries(source, answer) ==
    IF answer.kind = "raises" THEN <<>>
    ELSE IF answer.status_code # 200 THEN <<>>
    ELSE _extract_injuries(answer.payload, source, None)

\* rows of a provider payload: a player who is out, a player who is
\* questionable, a row without a player name
RowOut == ("playerName" :> <<65, 108>> @@ "status" :> <<79, 117, 116>> @@ "teamAbbrev" :> <<66, 79, 83>>)

RowQuestionable == ("playerName" :> <<66, 111>> @@ "status" :> <<81, 117, 101, 115, 116, 105, 111, 110, 97, 98, 108, 101>> @@ "teamAbbrev" :> <<67, 72, 73>>)

RowNameless == ("status" :> <<79, 117, 116>>)

\* what a provider may answer
ProviderAnswers ==
    {[kind |-> "raises", status_code |-> 0, payload |-> <<>>],
     [kind |-> "response", status_code |-> 503, payload |-> <<RowOut>>],
     [kind |-> "response", status_code |-> 200, payload |-> <<>>],
     [kind |-> "response", status_code |-> 200, payload |-> <<RowNameless>>],
     [kind |-> "response", status_code |-> 200, payload |-> <<RowOut>>],
     [kind |-> "response", status_code |-> 200, payload |-> <<RowQuestionable>>]}

NoFetch == [pc |-> "idle"]

\* fetch_injuries from its entry to its first request: the cached result when
\* one is held that is younger than the TTL, else the frame of the call
fetch_injuries_begin(memo, slate_date, t, odds_key, fallback_url) ==
    LET cache_key == isoformat(slate_date)
        fresh == cache_key \in DOMAIN memo /\ t - memo[cache_key].at < InjuryTtl
    IN  IF fresh
        THEN [returned |-> TRUE, injuries |-> memo[cache_key].injuries, frame |-> NoFetch]
        ELSE [returned |-> FALSE, injuries |-> <<>>,
              frame |-> [pc |-> "providers", slate_date |-> slate_date, started |-> t,
                         providers |-> _provider_urls(odds_key, fallback_url),
                         next |-> 1, answers |-> <<>>]]

\* fetch_injuries from the answer of a provider to the next request or the return
fetch_injuries_answered(memo, frame, answer) ==
    LET injuries == _fetch_provider_injuries(frame.providers[frame.next], answer)
        cache_key == isoformat(frame.slate_date)
        seen == [frame EXCEPT !.answers = Append(@, answer), !.next = @ + 1]
    IN  IF injuries # <<>>
        THEN [returned |-> TRUE, injuries |-> injuries, frame |-> seen,
              memo |-> [k \in DOMAIN memo \cup {cache_key} |->
                           IF k = cache_key THEN [at |-> frame.started, injuries |-> injuries]
                           ELSE memo[k]]]
        ELSE [returned |-> frame.next = Len(frame.providers), injuries |-> <<>>,
              frame |-> seen, memo |-> memo]

InitFetch ==
    /\ now = 0
    /\ disk = None
    /\ injury_cache = <<>>
    /\ cache = <<>>
    /\ rows = {}
    /\ cards = {}
    /\ legacy = {}
    /\ shadow = NoShadow
    /\ nops = 0
    /\ ret = [op |-> "init"]
    /\ tasks = NoFetch
    /\ arg = None

FetchBegin ==
    /\ nops < MaxFetches
    /\ tasks.pc = "idle"
    /\ \E odds_key \in BOOLEAN, fallback_url \in BOOLEAN :
          \E r \in {fetch_injuries_begin(injury_cache, Today, now, odds_key, fallback_url)} :
              /\ tasks' = r.frame
              /\ ret' = IF r.returned
                        THEN [op |-> "fetch_injuries", cached |-> TRUE, at |-> now,
                              kept_at |-> injury_cache[isoformat(Today)].at,
                              injuries |-> r.injuries, providers |-> <<>>, answers |-> <<>>]
                        ELSE [op |-> "pending"]
    /\ nops' = nops + 1
    /\ UNCHANGED <<now, cache, rows, cards, legacy, shadow, arg, disk, injury_cache>>

FetchAnswered ==
    /\ tasks.pc = "providers"
    /\ \E answer \in ProviderAnswers :
          \E r \in {fetch_injuries_answered(injury_cache, tasks, answer)} :
              /\ injury_cache' = r.memo
              /\ tasks' = IF r.returned THEN NoFetch ELSE r.frame
              /\ ret' = IF r.returned
                        THEN [op |-> "fetch_injuries", cached |-> FALSE, at |-> tasks.started,
                              kept_at |-> tasks.started,
                              injuries |-> r.injuries, providers |-> tasks.providers,
                              answers |-> r.frame.answers]
                        ELSE ret
    /\ UNCHANGED <<now, cache, rows, cards, legacy, shadow, nops, arg, disk>>

NextFetch == Tick \/ FetchBegin \/ FetchAnswered

SpecFetch == InitFetch /\ [][NextFetch]_vars

\* the normalized records an answer carries: none when the request failed
Yield(i) ==
    IF ret.answers[i].kind = "response" /\ ret.answers[i].status_code = 200
    THEN _extract_injuries(ret.answers[i].payload, ret.providers[i], None)
    ELSE <<>>

\* the call went to the providers in their order, passed over those that failed
\* or returned nothing, and stopped at the first that returned a record
FirstProviderWon ==
    /\ ~ret.cached
    /\ Len(ret.answers) \in 1..Len(ret.providers)
    /\ SubSeq(ret.providers, 1, 3) = <<"espn", "nba-cdn", "nba-cdn">>
    /\ \A i \in 1..(Len(ret.answers) - 1) : Yield(i) = <<>>
    /\ ret.injuries = Yield(Len(ret.answers))
    /\ ret.injuries = <<>> => Len(ret.answers) = Len(ret.providers)

\* C23 as the specification states it: every fetch_injuries call queries the
\* providers in their fixed order and stops at the first that returns at least
\* one normalized record; the result is that provider's records only, later
\* providers are not queried, a provider that fails or returns nothing is
\* skipped, and the result is empty only if every provider yielded no record.
C23_Stated == ret.op = "fetch_injuries" => FirstProviderWon

\* C23, amended: that is what a call does unless a non-empty result for the
\* slate date is held that was fetched less than _ttl_seconds ago; such a call
\* queries no provider and returns the held result
C23_FirstProviderWinsUnlessHeld ==
    ret.op = "fetch_injuries" =>
        IF ret.cached
        THEN /\ ret.answers = <<>>
             /\ ret.injuries # <<>>
             /\ ret.at - ret.kept_at < InjuryTtl
        ELSE FirstProviderWon

\* the first provider failed, the second returned nothing usable, the third
\* returned a record and the remaining provider was not queried
C23_Witness ==
    /\ ret.op = "fetch_injuries"
    /\ ~ret.cached
    /\ Len(ret.providers) = 4
    /\ Len(ret.answers) = 3
    /\ ret.answers[1].kind = "raises"
    /\ ret.answers[2].payload = <<RowNameless>>
    /\ Len(ret.injuries) = 1
    /\ ret.injuries[1].player_name = Al

\* the request get_game_lines makes to the odds API, or the one it then makes to
\* the MCP server, raises
LineRequestRaises ==
    \/ arg.odds.configured /\ arg.odds.raises
    \/ /\ ~has_live_lines(odds_fetch_game_lines(arg.games, arg.odds).lines)
       /\ arg.mcp.configured /\ arg.games # <<>> /\ arg.mcp.raises

\* C24 as the specification states it: when the request to a line provider
\* raises or times out, get_game_lines still returns a response with one line
\* record per scheduled game instead of propagating the error.
C24_Stated ==
    ret.op = "get_game_lines" =>
        /\ ~ret.raised
        /\ Len(ret.lines) = Len(ret.games)

\* C24 as the code has it: get_game_lines raises exactly when the request to
\* the odds API raises, or that provider has no live line and the request to the
\* MCP server raises; nothing is cached then, and it returns one line per game
\* otherwise
C24_ProviderErrorPropagates ==
    ret.op = "get_game_lines" =>
        /\ ret.raised <=> LineRequestRaises
        /\ ret.raised => cache = <<>>
        /\ ~ret.raised => Len(ret.lines) = Len(ret.games)

\* the odds API had no line for the game asked for, the request to the MCP
\* server raised and so did get_game_lines
C24_Witness ==
    /\ ret.op = "get_game_lines"
    /\ ret.raised
    /\ Len(ret.games) = 1
    /\ arg.odds.configured
    /\ ~arg.odds.raises
    /\ arg.mcp.raises

\* the last call was refresh(date, recompute=true)
Recomputed == ret.op = "refresh" /\ ret.recompute

\* C25 as the specification states it: a durable-store write error during
\* refresh(date, recompute=true) is logged and swallowed; refresh still returns
\* its result and both recomputed windows are written to the volatile cache.
C25_Stated ==
    Recomputed =>
        /\ ret.result # Raised
        /\ \A w \in Windows : Cached(matchups_key(ret.slate_date, w)) = ret.settled[w]

\* C25 as the code has it: a raising upsert ends refresh with that error, after
\* the cache entries of the date were cleared and before any window is cached;
\* when both upserts return, both windows are stored and cached
C25_WriteErrorPropagates ==
    Recomputed =>
        IF ret.result = Raised
        THEN \A w \in Windows : matchups_key(ret.slate_date, w) \notin DOMAIN cache
        ELSE \A w \in Windows :
                /\ Cached(matchups_key(ret.slate_date, w)) = ret.settled[w]
                /\ store_get(rows, ret.slate_date, w) = ret.settled[w]

\* the upsert of the last10 response raised: refresh raised, the season row is
\* the recomputed one, the last10 row is not, and the cache holds neither window
C25_Witness ==
    /\ Recomputed
    /\ ret.result = Raised
    /\ store_get(rows, ret.slate_date, "season") = ret.settled["season"]
    /\ store_get(rows, ret.slate_date, "last10") # ret.settled["last10"]
    /\ \A w \in Windows : matchups_key(ret.slate_date, w) \notin DOMAIN cache

(***************************************************************************)
(* InMemoryCache used by two threads.  Each of get, set and                *)
(* invalidate_prefix runs `with self._lock`; get reads the entry and then  *)
(* checks its expiry, and time may pass in between.  `tasks` holds the     *)
(* owner of the lock (0: free) and the frame of each thread; `shadow`      *)
(* keeps, per key, the value and time of the last set not invalidated      *)
(* since, and the time of the first of these sets.                         *)
(***************************************************************************)
MaxCacheOps == 4

Threads == {1, 2}

CacheKeys == {matchups_key(Slate1, "season"), <<"alpha">>}

CachePrefixes == {<<"matchups", isoformat(Slate1)>>, <<"beta">>}

CacheValues == {[v |-> "x"], [v |-> "y"]}

NoCall == [pc |-> "idle", op |-> "none", key |-> <<>>, value |-> None, entry |-> None]

lock_ignored(owner, thread) == TRUE

\* `with self._lock`: a thread enters when no other thread holds the lock
lock_free(owner, thread) == owner \in {0, thread}

\* InMemoryCache.get, its first statement: entry = self._store.get(key)
get_read(c, key) == IF key \in DOMAIN c THEN c[key] ELSE None

\* InMemoryCache.get, the rest: the value (or None) and the store afterwards
get_checked(c, key, entry, t) ==
    IF entry = None THEN [value |-> None, cache |-> c]
    ELSE IF t >= entry.expires_at THEN [value |-> None, cache |-> DictPop(c, {key})]
    ELSE [value |-> entry.value, cache |-> c]

\* the key begins with the tokens of the prefix
Covers(prefix, key) ==
    /\ Len(prefix) <= Len(key)
    /\ \A j \in 1..Len(prefix) : key[j] = prefix[j]

InitCache ==
    /\ now = 0
    /\ disk = None
    /\ injury_cache = <<>>
    /\ cache = <<>>
    /\ rows = {}
    /\ cards = {}
    /\ legacy = {}
    /\ shadow = [k \in CacheKeys |-> None]
    /\ nops = 0
    /\ ret = [op |-> "init"]
    /\ tasks = [lock |-> 0, frames |-> [i \in Threads |-> NoCall]]
    /\ arg = None

\* a thread calls get, set or invalidate_prefix and takes the lock
CacheEnter ==
    /\ nops < MaxCacheOps
    /\ \E i \in Threads :
          /\ tasks.frames[i].pc = "idle"
          /\ lock_free(tasks.lock, i)
          /\ \E call \in {[NoCall EXCEPT !.pc = "entered", !.op = "get", !.key = k] :
                              k \in CacheKeys}
                   \cup {[NoCall EXCEPT !.pc = "entered", !.op = "set", !.key = k,
                                        !.value = v] : k \in CacheKeys, v \in CacheValues}
                   \cup {[NoCall EXCEPT !.pc = "entered", !.op = "invalidate_prefix",
                                        !.key = p] : p \in CachePrefixes} :
                tasks' = [lock |-> i, frames |-> [tasks.frames EXCEPT ![i] = call]]
    /\ nops' = nops + 1
    /\ UNCHANGED <<now, cache, rows, cards, legacy, shadow, ret, arg, disk, injury_cache>>

CacheGetRead ==
    \E i \in Threads :
        /\ tasks.frames[i].pc = "entered"
        /\ tasks.frames[i].op = "get"
        /\ tasks' = [tasks EXCEPT !.frames[i].pc = "read",
                                  !.frames[i].entry = get_read(cache, tasks.frames[i].key)]
        /\ UNCHANGED <<now, cache, rows, cards, legacy, shadow, nops, ret, arg, disk,
                       injury_cache>>

CacheGetReturn ==
    \E i \in Threads :
        /\ tasks.frames[i].pc = "read"
        /\ \E r \in {get_checked(cache, tasks.frames[i].key, tasks.frames[i].entry, now)} :
              /\ cache' = r.cache
              /\ ret' = [op |-> "get", key |-> tasks.frames[i].key, value |-> r.value,
                         at |-> now]
        /\ tasks' = [lock |-> 0, frames |-> [tasks.frames EXCEPT ![i] = NoCall]]
        /\ UNCHANGED <<now, rows, cards, legacy, shadow, nops, arg, disk, injury_cache>>

CacheSet ==
    \E i \in Threads :
        /\ tasks.frames[i].pc = "entered"
        /\ tasks.frames[i].op = "set"
        /\ cache' = cache_set(cache, tasks.frames[i].key, tasks.frames[i].value, now)
        /\ shadow' = [shadow EXCEPT ![tasks.frames[i].key] =
                         [value |-> tasks.frames[i].value, at |-> now,
                          first |-> IF shadow[tasks.frames[i].key] = None THEN now
                                    ELSE shadow[tasks.frames[i].key].first]]
        /\ ret' = [op |-> "set", key |-> tasks.frames[i].key, at |-> now]
        /\ tasks' = [lock |-> 0, frames |-> [tasks.frames EXCEPT ![i] = NoCall]]
        /\ UNCHANGED <<now, rows, cards, legacy, nops, arg, disk, injury_cache>>

CacheInvalidate ==
    \E i \in Threads :
        /\ tasks.frames[i].pc = "entered"
        /\ tasks.frames[i].op = "invalidate_prefix"
        /\ \E r \in {invalidate_prefix(cache, tasks.frames[i].key)} :
              /\ cache' = r.cache
              /\ ret' = [op |-> "invalidate_prefix", key |-> tasks.frames[i].key,
                         count |-> r.count, at |-> now]
        /\ shadow' = [k \in CacheKeys |->
                         IF Covers(tasks.frames[i].key, k) THEN None ELSE shadow[k]]
        /\ tasks' = [lock |-> 0, frames |-> [tasks.frames EXCEPT ![i] = NoCall]]
        /\ UNCHANGED <<now, rows, cards, legacy, nops, arg, disk, injury_cache>>

NextCache ==
    Tick \/ CacheEnter \/ CacheGetRead \/ CacheGetReturn \/ CacheSet \/ CacheInvalidate

SpecCache == InitCache /\ [][NextCache]_vars

\* the key was set, not invalidated since, and less than the TTL has elapsed
\* since its most recent set
LiveAt(key, t) == shadow[key] # None /\ t - shadow[key].at < Ttl

\* C26: get(k) returns the value of the most recent set(k) exactly while less
\* than the TTL has elapsed since that set and k has not been invalidated; at or
\* after expiry it returns nothing and removes the entry; every set restarts the
\* TTL of its key; get, set and invalidate_prefix exclude one another under the
\* cache lock (at most one thread is inside one of them).
C26_TtlCache ==
    /\ ret.op = "get" =>
          IF LiveAt(ret.key, ret.at)
          THEN ret.value = shadow[ret.key].value
          ELSE ret.value = None /\ ret.key \notin DOMAIN cache
    /\ \A k \in DOMAIN cache :
          /\ shadow[k] # None
          /\ cache[k] = CacheEntry(shadow[k].value, shadow[k].at + Ttl)
    /\ Cardinality({i \in Threads : tasks.frames[i].pc # "idle"}) <= 1

\* a key was set twice, the second set restarted its TTL: a get at a time when
\* the first set had expired returned the second value
C26_Witness ==
    /\ ret.op = "get"
    /\ LiveAt(ret.key, ret.at)
    /\ ret.at - shadow[ret.key].first >= Ttl
    /\ ret.value = [v |-> "y"]

\* a get found its key expired, returned nothing and removed the entry
C26_WitnessExpired ==
    /\ ret.op = "get"
    /\ shadow[ret.key] # None
    /\ ~LiveAt(ret.key, ret.at)
    /\ ret.value = None
    /\ ret.key \notin DOMAIN cache

(***************************************************************************)
(* refresh(recompute=false) running while get_matchups requests are in     *)
(* flight.  That path of refresh has no await, so it is one step of the    *)
(* event loop; it may run while a request is suspended in _compute_matchups*)
(* (pc "injuries").  Its log keeps which requests were suspended and which *)
(* were past their writes at that moment.                                  *)
(***************************************************************************)
MaxClears == 1

RaceClear ==
    /\ (IF ret.op = "init" THEN 0 ELSE ret.n) < MaxClears
    /\ \E env \in RefreshEnvs(FALSE) :
          \E r \in {refresh(cache, rows, cards, Today, FALSE, now, env)} :
             /\ cache' = r.cache
             /\ rows' = r.rows
             /\ cards' = r.cards
             /\ ret' = [op |-> "refresh", slate_date |-> Today, recompute |-> FALSE,
                        at |-> now, result |-> r.result,
                        n |-> IF ret.op = "init" THEN 1 ELSE ret.n + 1,
                        suspended |-> {i \in Requests : tasks[i].pc = "injuries"},
                        finished |-> {i \in Requests : tasks[i].pc \in {"overlay", "done"}}]
    /\ nops' = nops + 1
    /\ UNCHANGED <<now, legacy, shadow, tasks, arg, disk, injury_cache>>

\* the clock stands still: expiry plays no part in which request writes when
NextClear == RaceBegin \/ RaceComputed \/ RaceEnd \/ RaceClear

SpecClear == InitRace /\ [][NextClear]_vars

Cleared == ret.op = "refresh" /\ ret.result # Raised

\* the response request i computed is what the cache or the store holds for its key
Recreated(i) ==
    /\ tasks[i].computed
    /\ \/ Cached(matchups_key(tasks[i].slate_date, tasks[i].window)) = tasks[i].base
       \/ store_get(rows, tasks[i].slate_date, tasks[i].window) = tasks[i].base

\* C27: once refresh(date, recompute=false) has returned, no get_matchups request
\* that was suspended in its computation while refresh ran writes its response
\* into the durable store or the volatile cache.
C27_Stated == Cleared => \A i \in ret.suspended : ~Recreated(i)

\* C27 as the code has it: after refresh(date, recompute=false) returned, whatever
\* the cache or the store holds for the date was written by a request that had
\* not yet reached its writes when refresh ran, the suspended ones included.
C27_RecreatedByLaterWrites ==
    Cleared =>
        \A w \in Windows :
            (Cached(matchups_key(Today, w)) # None \/ store_get(rows, Today, w) # None) =>
                \E i \in Requests \ ret.finished : tasks[i].computed /\ tasks[i].window = w

\* a request suspended while refresh cleared the date resumed and put its response
\* back into the cache and the store; no other request computed that window
C27_Witness ==
    /\ Cleared
    /\ \E i \in ret.suspended :
          /\ tasks[i].computed
          /\ Cached(matchups_key(Today, tasks[i].window)) = tasks[i].base
          /\ store_get(rows, Today, tasks[i].window) = tasks[i].base
          /\ \A j \in Requests \ {i} : tasks[j].computed => tasks[j].window # tasks[i].window

(***************************************************************************)
(* build_snapshot raising.  get_matchups and refresh(recompute=false) run  *)
(* against one date; `ret.log` keeps, per call, what the call met and what *)
(* it left in the cache and the store.                                     *)
(***************************************************************************)
MaxFailCalls == 3

FailEnvs ==
    {Nominal,
     [Nominal EXCEPT !.games_up = FALSE],
     [Nominal EXCEPT !.build_ok = FALSE],
     [Nominal EXCEPT !.build_ok = FALSE, !.upsert_ok = FALSE],
     [Nominal EXCEPT !.build_ok = FALSE, !.games_up = FALSE]}

\* the value a store of cache entries holds under a key
held_in(c, key) == IF key \in DOMAIN c THEN c[key].value ELSE None

FailGetMatchups ==
    /\ Len(ret.log) < MaxFailCalls
    /\ \E window \in Windows, env \in FailEnvs :
          \E r \in {get_matchups(cache, rows, cards, Today, window, now, env)} :
              /\ cache' = r.cache
              /\ rows' = r.rows
              /\ cards' = r.cards
              /\ ret' = [ret EXCEPT !.log = Append(@,
                            [op |-> "get_matchups", at |-> now, window |-> window,
                             key |-> snapshot_key_for(Today,
                                         fetch_slate_games(Today, env.games_up)),
                             games |-> Len(r.result.games),
                             players |-> Len(r.result.players),
                             computes |-> Len(r.computes), builds |-> r.builds,
                             build_raised |-> r.builds > 0 /\ ~env.build_ok,
                             upsert_raised |-> r.upsert_raised,
                             snapshot |-> held_in(r.cache, snapshot_key_for(Today,
                                              fetch_slate_games(Today, env.games_up))),
                             base |-> r.base,
                             cached |-> held_in(r.cache, matchups_key(Today, window)),
                             stored |-> store_get(r.rows, Today, window)])]
    /\ nops' = nops + 1
    /\ UNCHANGED <<now, legacy, shadow, tasks, arg, disk, injury_cache>>

FailRefresh ==
    /\ Len(ret.log) < MaxFailCalls
    /\ \E r \in {refresh(cache, rows, cards, Today, FALSE, now, Nominal)} :
          /\ cache' = r.cache
          /\ rows' = r.rows
          /\ cards' = r.cards
          /\ ret' = [ret EXCEPT !.log = Append(@,
                        [op |-> "refresh", at |-> now, window |-> "", key |-> <<>>,
                         games |-> 0, players |-> 0, computes |-> 0, builds |-> 0,
                         build_raised |-> FALSE, upsert_raised |-> FALSE,
                         snapshot |-> None, base |-> None, cached |-> None,
                         stored |-> None])]
    /\ nops' = nops + 1
    /\ UNCHANGED <<now, legacy, shadow, tasks, arg, disk, injury_cache>>

NextFail == Tick \/ FailGetMatchups \/ FailRefresh

SpecFail == InitMemo /\ [][NextFail]_vars

Calls == 1..Len(ret.log)

\* call j came after call i and less than the TTL after it
LaterWithinTtl(i, j) == i < j /\ ret.log[j].at - ret.log[i].at < Ttl

\* the empty-player response and the fallback snapshot the failing call left
Memoized(i) ==
    /\ ret.log[i].players = 0
    /\ ret.log[i].snapshot = FallbackSnapshot
    /\ ret.log[i].cached = ret.log[i].base

\* C28: when build_snapshot raises during a computation, get_matchups still returns
\* the slate with no players, caches the fallback snapshot under the snapshot key,
\* upserts and caches the empty-player response, and every later get_matchups for
\* the slate within the TTL returns no players without calling build_snapshot.
C28_Stated ==
    \A i \in Calls :
        ret.log[i].build_raised =>
            /\ Memoized(i)
            /\ ret.log[i].stored = ret.log[i].base
            /\ \A j \in Calls :
                  (LaterWithinTtl(i, j) /\ ret.log[j].op = "get_matchups") =>
                      ret.log[j].players = 0 /\ ret.log[j].builds = 0

\* C28 with its conditions: the response is stored when the upsert returns; the
\* later calls that return no players without building are those with no refresh
\* in between that ask for the same window, or compute and read the same schedule.
C28_FailureMemoized ==
    \A i \in Calls :
        ret.log[i].build_raised =>
            /\ Memoized(i)
            /\ ~ret.log[i].upsert_raised => ret.log[i].stored = ret.log[i].base
            /\ \A j \in Calls :
                  ( /\ LaterWithinTtl(i, j)
                    /\ ret.log[j].op = "get_matchups"
                    /\ \A k \in i..j : ret.log[k].op # "refresh"
                    /\ \/ ret.log[j].window = ret.log[i].window
                       \/ ret.log[j].computes = 1 /\ ret.log[j].key = ret.log[i].key ) =>
                      ret.log[j].players = 0 /\ ret.log[j].builds = 0

\* build_snapshot raised for a slate with games; a later call for the other
\* window computed, found the fallback snapshot and returned the games with no
\* players without building, although its own build would have succeeded
C28_Witness ==
    \E i, j \in Calls :
        /\ ret.log[i].build_raised
        /\ ret.log[i].games > 0
        /\ LaterWithinTtl(i, j)
        /\ ret.log[j].at > ret.log[i].at
        /\ ret.log[j].op = "get_matchups"
        /\ ret.log[j].window # ret.log[i].window
        /\ ret.log[j].key = ret.log[i].key
        /\ ret.log[j].computes = 1
        /\ ret.log[j].builds = 0
        /\ ret.log[j].games > 0
        /\ ret.log[j].players = 0

(***************************************************************************)
(* get_matchups and refresh serving two slate dates.                       *)
(***************************************************************************)
MaxKeyOps == 2

KeyEnvs == {Nominal, [Nominal EXCEPT !.games_up = FALSE, !.games_up2 = FALSE]}

KeysGetMatchups ==
    /\ nops < MaxKeyOps
    /\ GetMatchupsFor(Slates, KeyEnvs)

KeysRefresh ==
    /\ nops < MaxKeyOps
    /\ \E slate_date \in Slates, recompute \in BOOLEAN :
        \E env \in IF recompute THEN KeyEnvs ELSE {Nominal} :
          \E r \in {refresh(cache, rows, cards, slate_date, recompute, now, env)} :
              /\ cache' = r.cache
              /\ rows' = r.rows
              /\ cards' = r.cards
              /\ ret' = [op |-> "refresh", slate_date |-> slate_date,
                         recompute |-> recompute, at |-> now, result |-> r.result,
                         existing |-> r.existing, fresh |-> r.fresh,
                         settled |-> r.settled]
    /\ nops' = nops + 1
    /\ UNCHANGED <<now, legacy, shadow, tasks, arg, disk, injury_cache>>

NextKeys == Tick \/ KeysGetMatchups \/ KeysRefresh

SpecKeys == Init /\ [][NextKeys]_vars

\* the cache entries under matchups:<d>:<w>
MatchupsEntries == {k \in DOMAIN cache : k[1] = "matchups"}

\* the rows of matchup_snapshots whose payload can be read
ReadableRows == {row \in rows : row.payload # CorruptPayload}

\* C29: every cache entry under matchups:<d>:<w> and every durable row keyed
\* (d, w) holds a response whose slate_date is d and whose window is w, and every
\* response a computation for slate d produced has as_of_date d minus one day.
C29_KeysMatchResponses ==
    /\ \A k \in MatchupsEntries :
          /\ isoformat(cache[k].value.slate_date) = k[2]
          /\ cache[k].value.window = k[3]
    /\ \A row \in ReadableRows :
          /\ isoformat(model_validate(row.payload).slate_date) = row.slate_date
          /\ model_validate(row.payload).window = row.window_key
    /\ (ret.op = "get_matchups" /\ ret.computes # <<>>) =>
          /\ ret.base.as_of_date = MinusOneDay(ret.slate_date)
          /\ ret.base.slate_date = ret.slate_date
          /\ ret.base.window = ret.window
    /\ (ret.op = "refresh" /\ ret.recompute) =>
          \A w \in Windows :
              /\ ret.fresh[w].as_of_date = MinusOneDay(ret.slate_date)
              /\ ret.fresh[w].slate_date = ret.slate_date
              /\ ret.fresh[w].window = w

\* the cache and the store hold responses of both dates: a refresh recomputed one
\* date after a get_matchups had computed a window of the other
C29_Witness ==
    /\ ret.op = "refresh"
    /\ ret.recompute
    /\ ret.result # Raised
    /\ \E k1, k2 \in MatchupsEntries : k1[2] # k2[2]
    /\ \E r1, r2 \in ReadableRows :
          /\ r1.slate_date # r2.slate_date
          /\ model_validate(r1.payload).as_of_date = MinusOneDay(Slate1)
          /\ model_validate(r2.payload).as_of_date = MinusOneDay(Slate2)

(***************************************************************************)
(* The live injury overlay of get_matchups, in Spec: ret.base is the base  *)
(* response the call settled on, ret.result what it returned.              *)
(***************************************************************************)
\* the fields of a player the overlay has no business with
WithoutStatus(player) == [player EXCEPT !.injury_status = None]

\* C30: the overlay changes only the injuries list and each player's
\* injury_status: the returned response has the slate date, as-of date, window
\* and games of the base response and the same players in the same order with
\* every other field unchanged, and the base response in the cache and in the
\* store is as it was before the overlay.
C30_OverlayFrame ==
    Returned =>
        /\ ret.result.slate_date = ret.base.slate_date
        /\ ret.result.as_of_date = ret.base.as_of_date
        /\ ret.result.window = ret.base.window
        /\ ret.result.games = ret.base.games
        /\ Len(ret.result.players) = Len(ret.base.players)
        /\ \A i \in 1..Len(ret.base.players) :
              WithoutStatus(ret.result.players[i]) = WithoutStatus(ret.base.players[i])
        /\ Cached(matchups_key(ret.slate_date, ret.window)) = ret.base
        /\ ((ret.promoted /\ ret.computes = <<>>) \/ (ret.upserts = 1 /\ ~ret.upsert_raised)) =>
              store_get(rows, ret.slate_date, ret.window) = ret.base

\* a cached base response without injuries was overlaid with a live report: the
\* returned response lists the injury and marks the player, the cached one does not
C30_Witness ==
    /\ Returned
    /\ ret.computes = <<>>
    /\ ret.base.injuries = <<>>
    /\ ret.result.injuries # <<>>
    /\ \E i \in 1..Len(ret.base.players) :
          /\ ret.base.players[i].injury_status = None
          /\ ret.result.players[i].injury_status # None
    /\ Cached(matchups_key(ret.slate_date, ret.window)) = ret.base

====
